---- MODULE Spec2Model ----
(***************************************************************************)
(* Model of the synchronization engine of music-madness-sync-bridge:       *)
(* SyncService (preview / apply / resolveConflict), the StateStore tables  *)
(* with their durable file, the NotionAdapter's page and block operations  *)
(* and the audit log.                                                      *)
(***************************************************************************)
EXTENDS Integers, Sequences, FiniteSets, TLC

(* ------------------------------ bounds -------------------------------- *)

\* edits an operator makes by hand on destination pages in one behaviour
MaxOperatorEdits == 1
\* failing calls (destination, source, file write, audit append) in one behaviour
MaxFaults == 1
\* conflicts stored when listConflicts is called on its own
MaxConflicts == 3

(* ------------------------- program constants -------------------------- *)

\* blocks.children.list({ page_size: 100 }) in upsertFoundryMirror
NOTION_LIST_PAGE_SIZE == 100
\* paragraphs ensureJournalPage appends to a page it creates
TEMPLATE_PARAGRAPHS == 9

(* ------------------------------ universe ------------------------------ *)

Docs == {"d1", "d2"}
\* identifiers newId("run") returns, in the order it returns them
RunIds == {1, 2}
\* options.journalIds of one invocation
Batches == {<<"d1">>, <<"d1", "d2">>}
\* lengths (in operator-written blocks) of the page that exists for d1 at start
InitialPageLengths == {NOTION_LIST_PAGE_SIZE}
Resolutions == {"accept_foundry", "manual_merge"}
\* bodies a source journal can have, and the journals whose body gets edited
Contents == {"body1", "body2"}
EditableDocs == {"d1"}

VARIABLES
  foundry,      \* source system: journal id -> the journal its API serves
  notion,       \* destination workspace: pages, their blocks, id counter
  db,           \* StateStore's in-memory database (the four tables)
  disk,         \* bridge.sqlite as last written by persist()
  audit,        \* audit.log: sequence of records
  clock,        \* wall clock
  opEdits,      \* edits made by hand on destination pages so far
  pc,           \* position of the apply invocation in progress
  run,          \* locals of the apply invocation in progress
  outcome,      \* how the last apply invocation ended
  lastPreview,  \* items returned by the stand-alone preview call just made
  faults,       \* failing calls so far
  mediaDir,     \* files in <bridgeDataDir>/media
  returned,     \* what the resolveConflict / listConflicts call just made returned
  input         \* arguments of the function a specification of one function applies

vars == <<foundry, notion, db, disk, audit, clock, opEdits, pc, run, outcome,
          lastPreview, faults, mediaDir, returned, input>>

Min(a, b) == IF a < b THEN a ELSE b

RECURSIVE SeqToSet(_)
SeqToSet(s) == IF s = <<>> THEN {} ELSE {Head(s)} \cup SeqToSet(Tail(s))

(* ------------------------------ source -------------------------------- *)

(* An optional value (a field that may be undefined) is <<>> when undefined *)
(* and <<v>> when it is v.                                                  *)
None == <<>>
Some(x) == <<x>>
\* o ?? v
OrElse(o, v) == IF o = None THEN v ELSE o[1]

\* a URL: the directory of its path, the filename that ends the path, the query
Url(dir, file, query) == [dir |-> dir, file |-> file, query |-> query]

\* the empty string as a URL
NoUrl == Url("", <<"">>, "")

\* a media reference as the source lists it (FoundryMediaAsset)
MediaAsset(assetId, sourceUrl, filename, mimeType, sizeBytes) ==
  [assetId |-> assetId, sourceUrl |-> sourceUrl, filename |-> filename,
   mimeType |-> mimeType, sizeBytes |-> sizeBytes]

\* dedupeMedia: references without a URL dropped, the first reference per URL kept
RECURSIVE dedupeMedia(_)
dedupeMedia(items) ==
  IF items = <<>>
  THEN <<>>
  ELSE LET before == dedupeMedia(SubSeq(items, 1, Len(items) - 1))
           item   == items[Len(items)]
       IN IF item.sourceUrl = NoUrl \/ \E i \in DOMAIN before : before[i].sourceUrl = item.sourceUrl
          THEN before
          ELSE Append(before, item)

\* the journal the source serves for d until it is edited: named as its id,
\* no aliases, no folder, no timestamps
SourceJournal(d, content, media) ==
  [name |-> d, content |-> content, aliases |-> <<>>, folderId |-> None,
   folderPath |-> None, createdAt |-> None, updatedAt |-> None, type |-> None,
   media |-> media]

\* FoundryClient.getJournal: the journal as the source holds it now (the
\* bodies of the model carry no src/href attribute, so every media reference
\* is one the API lists)
GetJournal(f, id) ==
  [id |-> id, name |-> f[id].name, folderId |-> f[id].folderId,
   folderPath |-> f[id].folderPath, createdAt |-> f[id].createdAt,
   updatedAt |-> f[id].updatedAt, aliases |-> Some(f[id].aliases),
   type |-> f[id].type, content |-> f[id].content,
   media |-> Some(dedupeMedia(f[id].media))]

\* Date.prototype.toISOString: the instant as text of fixed width, here two
\* digits; a text is the sequence of its characters
toISOString(t) == <<t \div 10, t % 10>>

\* sha256 of a serialized value: modelled collision-free
sha256(x) == <<"sha256", x>>

\* the part of a media reference hashJournal serializes
MediaBasis(m) == <<m.assetId, m.sourceUrl, m.filename, m.mimeType>>

RECURSIVE MediaBases(_)
MediaBases(media) ==
  IF media = <<>> THEN <<>> ELSE <<MediaBasis(Head(media))>> \o MediaBases(Tail(media))

\* variant: the aliases are left out of the hashed fields
hashJournal_WithoutAliases(journal) ==
  sha256(<<journal.id, journal.name, OrElse(journal.folderPath, <<>>),
           journal.updatedAt, journal.content, MediaBases(OrElse(journal.media, <<>>))>>)

\* hashJournal: sha256 of JSON.stringify of the synchronizable fields; the
\* JSON text is one-to-one on the serialized fields, an undefined field being
\* left out of it
hashJournal(journal) ==
  sha256(<<journal.id, journal.name, OrElse(journal.aliases, <<>>),
           OrElse(journal.folderPath, <<>>), journal.updatedAt, journal.content,
           MediaBases(OrElse(journal.media, <<>>))>>)

\* htmlToReadableText: the readable text of a body (one text per body)
htmlToReadableText(content) == <<"text", content>>

\* buildMirrorPayload: metadata lines (with "Last Synced: <now>"), body text, media
buildMirrorPayload(journal, media, includeMedia, now) ==
  [id |-> journal.id, name |-> journal.name, lastSynced |-> now,
   contentText |-> htmlToReadableText(journal.content),
   media |-> media, includeMedia |-> includeMedia]

\* content of a block that carries no generated payload
NoPayload ==
  [id |-> "", name |-> "", lastSynced |-> 0, contentText |-> <<"text", "">>,
   media |-> <<>>, includeMedia |-> FALSE]

(* --------------------------- destination ------------------------------ *)
(* notion = [pages, nextBlock]; a page's id is its index in pages;         *)
(* page = [title, last_edited_time, preamble, children]: its child blocks  *)
(* are preamble paragraphs an operator wrote before the bridge first saw   *)
(* the page (identifiers 1..preamble), followed by children.  A block =    *)
(* [id, type, by, doc, content], content being <<>> or <<payload>> and doc *)
(* the journal a callout was generated for.  Identifier 0 is undefined.    *)

Block(id, type, by, doc, content) ==
  [id |-> id, type |-> type, by |-> by, doc |-> doc, content |-> content]

\* k consecutive paragraph blocks with identifiers first, first+1, ...
Paragraphs(first, k, by) ==
  [i \in 1..k |-> Block(first + i - 1, "paragraph", by, "", <<>>)]

PageIds(n) == DOMAIN n.pages

\* all child blocks of a page, in page order
Children(page) == Paragraphs(1, page.preamble, "operator") \o page.children

BlockIdsOf(page) == (1..page.preamble) \cup {page.children[i].id : i \in DOMAIN page.children}

\* the page without the child block blockId
WithoutBlock(page, blockId) ==
  IF blockId \in 1..page.preamble
  THEN [page EXCEPT !.preamble = blockId - 1,
                    !.children = Paragraphs(blockId + 1, page.preamble - blockId, "operator") \o @]
  ELSE [page EXCEPT !.children = SelectSeq(@, LAMBDA b : b.id # blockId)]

BlockExists(n, blockId) == \E p \in PageIds(n) : blockId \in BlockIdsOf(n.pages[p])

\* the page a block is a child of (block identifiers are unique), 0 if none
PageOfBlock(n, blockId) ==
  IF BlockExists(n, blockId)
  THEN CHOOSE p \in PageIds(n) : blockId \in BlockIdsOf(n.pages[p])
  ELSE 0

\* notion.blocks.children.append on a page: new blocks go to the end
AppendChildren(n, pageId, blocks, now) ==
  [n EXCEPT !.pages[pageId].children = @ \o blocks,
            !.pages[pageId].last_edited_time = now,
            !.nextBlock = @ + Len(blocks)]

\* variant: the delete takes the blocks written after the block with it
DeleteBlock_AndFollowing(n, blockId, now) ==
  LET parent == PageOfBlock(n, blockId)
  IN IF parent = 0
     THEN n
     ELSE [n EXCEPT
             !.pages[parent].children =
                SelectSeq(@, LAMBDA b : b.id < blockId),
             !.pages[parent].last_edited_time = now]

\* notion.blocks.delete: the block leaves its parent's children
DeleteBlock(n, blockId, now) ==
  LET parent == PageOfBlock(n, blockId)
  IN IF parent = 0
     THEN n
     ELSE [n EXCEPT
             !.pages[parent] = [WithoutBlock(@, blockId) EXCEPT !.last_edited_time = now]]

\* findChildPageByTitle under the Journals root: first child page with the title
findChildPageByTitle(n, title) ==
  IF \E p \in PageIds(n) : n.pages[p].title = title
  THEN CHOOSE p \in PageIds(n) :
         /\ n.pages[p].title = title
         /\ \A q \in PageIds(n) : n.pages[q].title = title => p <= q
  ELSE 0

\* ensureJournalPage: the existing page, or a new page with the template paragraphs
ensureJournalPage(n, canonicalName, now) ==
  LET existing == findChildPageByTitle(n, canonicalName)
      created  == Len(n.pages) + 1
      withPage == [n EXCEPT !.pages = Append(@,
                     [title |-> canonicalName, last_edited_time |-> now,
                      preamble |-> 0, children |-> <<>>])]
  IN IF existing # 0
     THEN [notion |-> n, pageId |-> existing]
     ELSE [notion |-> AppendChildren(withPage, created,
                        Paragraphs(n.nextBlock, TEMPLATE_PARAGRAPHS, "bridge"), now),
           pageId |-> created]

\* variant: the lookup creates the page it does not find
findPageByCanonicalOrAlias_Creating(n, canonicalName) ==
  ensureJournalPage(n, canonicalName, 0)

\* findPageByCanonicalOrAlias: a read; the workspace is returned as it was
findPageByCanonicalOrAlias(n, canonicalName) ==
  [notion |-> n, pageId |-> findChildPageByTitle(n, canonicalName)]

\* getPageLastEdited
getPageLastEdited(n, pageId) == n.pages[pageId].last_edited_time

\* the first page of children.list: at most NOTION_LIST_PAGE_SIZE blocks
ListChildrenFirstPage(n, pageId) ==
  SubSeq(Children(n.pages[pageId]), 1,
         Min(Len(Children(n.pages[pageId])), NOTION_LIST_PAGE_SIZE))

\* hasHeading: a heading_2 "Foundry Mirror" among the listed children
hasHeading(listed) == \E i \in DOMAIN listed : listed[i].type = "heading_2"

\* faults of the destination API during one upsert
UpsertFaults == {"none", "delete", "list", "chunk"}

\* upsertFoundryMirror(pageId, mirrorPayload, previousMirrorBlockId):
\* best-effort delete of the previous container, heading if none is listed,
\* a new callout container, then the generated blocks inside it.
\* fault names the API call that fails ("delete" is swallowed by the catch).
upsertFoundryMirror(n, pageId, mirrorPayload, previousMirrorBlockId, fault, now) ==
  LET n1 == IF /\ previousMirrorBlockId # 0
               /\ fault # "delete"
               /\ BlockExists(n, previousMirrorBlockId)
            THEN DeleteBlock(n, previousMirrorBlockId, now)
            ELSE n
      listed == ListChildrenFirstPage(n1, pageId)
      n2 == IF hasHeading(listed)
            THEN n1
            ELSE AppendChildren(n1, pageId,
                   <<Block(n1.nextBlock, "heading_2", "bridge", "", <<>>)>>, now)
      containerId == n2.nextBlock
      n3 == AppendChildren(n2, pageId,
              <<Block(containerId, "callout", "bridge", mirrorPayload.id, <<>>)>>, now)
      n4 == [n3 EXCEPT
               !.pages[pageId].children[Len(n3.pages[pageId].children)].content =
                  <<mirrorPayload>>]
  IN CASE fault = "list"      -> [notion |-> n1, ok |-> FALSE, mirrorBlockId |-> 0]
       [] fault = "chunk"     -> [notion |-> n3, ok |-> FALSE, mirrorBlockId |-> 0]
       [] OTHER               -> [notion |-> n4, ok |-> TRUE, mirrorBlockId |-> containerId]

(* ----------------------------- state store ---------------------------- *)
(* db = [sync_map, sync_conflicts, sync_runs, media_map], each a set of    *)
(* rows.  Every mutating method runs its statement on the in-memory        *)
(* database and then calls persist(), which rewrites the file or throws.   *)

EmptyDb == [sync_map |-> {}, sync_conflicts |-> {}, sync_runs |-> {}, media_map |-> {}]

SyncMapRows(d, foundryId) == {r \in d.sync_map : r.foundry_id = foundryId}

HasSyncMap(d, foundryId) == SyncMapRows(d, foundryId) # {}

\* getSyncMap: the first row of SELECT * FROM sync_map WHERE foundry_id = ?
getSyncMap(d, foundryId) == CHOOSE r \in SyncMapRows(d, foundryId) : TRUE

\* variant: a plain INSERT on a table without the primary key
upsertSyncMap_PlainInsert(d, map) ==
  [d EXCEPT !.sync_map = @ \cup {map}]

\* variant: INSERT OR IGNORE, the row a source identifier already has stays
upsertSyncMap_KeepingExisting(d, map) ==
  IF HasSyncMap(d, map.foundry_id)
  THEN d
  ELSE [d EXCEPT !.sync_map = @ \cup {map}]

\* upsertSyncMap: INSERT ... ON CONFLICT(foundry_id) DO UPDATE SET ...
upsertSyncMap(d, map) ==
  [d EXCEPT !.sync_map = {r \in @ : r.foundry_id # map.foundry_id} \cup {map}]

\* insertConflict: INSERT OR REPLACE keyed by conflict_id
insertConflict(d, conflict) ==
  [d EXCEPT !.sync_conflicts =
     {r \in @ : r.conflict_id # conflict.conflict_id} \cup {conflict}]

\* variant: the resolved conflict's source version is also recorded as synced
updateConflictResolution_AcceptingSource(d, conflictId, status, notes) ==
  [d EXCEPT
     !.sync_conflicts =
        {IF r.conflict_id = conflictId
         THEN [r EXCEPT !.status = status, !.operator_notes = notes]
         ELSE r : r \in @},
     !.sync_map =
        {IF \E r \in d.sync_conflicts :
               r.conflict_id = conflictId /\ r.foundry_id = m.foundry_id
         THEN [m EXCEPT !.source_hash =
                 (CHOOSE r \in d.sync_conflicts : r.conflict_id = conflictId).source_hash]
         ELSE m : m \in @}]

\* updateConflictResolution: UPDATE ... WHERE conflict_id = ?
updateConflictResolution(d, conflictId, status, notes) ==
  [d EXCEPT !.sync_conflicts =
     {IF r.conflict_id = conflictId
      THEN [r EXCEPT !.status = status, !.operator_notes = notes]
      ELSE r : r \in @}]

\* variant: the call reports a change whatever the UPDATE matched
ConflictExists_Always(d, conflictId) == TRUE

\* getRowsModified() > 0 after that UPDATE
ConflictExists(d, conflictId) == \E r \in d.sync_conflicts : r.conflict_id = conflictId

\* SQLite's comparison of two TEXT values (BINARY collation): character by
\* character, a proper prefix first
RECURSIVE TextLess(_, _)
TextLess(a, b) ==
  IF a = <<>> THEN b # <<>>
  ELSE IF b = <<>> THEN FALSE
  ELSE IF Head(a) # Head(b) THEN Head(a) < Head(b)
  ELSE TextLess(Tail(a), Tail(b))

\* the rows of SELECT * FROM sync_conflicts [WHERE status = ?]
ConflictsWithStatus(d, status) ==
  IF status = "all"
  THEN d.sync_conflicts
  ELSE {r \in d.sync_conflicts : r.status = status}

\* the sequences that list every row of a set once
Orderings(rows) ==
  {s \in [1..Cardinality(rows) -> rows] :
     \A i, j \in 1..Cardinality(rows) : i # j => s[i] # s[j]}

\* variant: ORDER BY source_changed_at, ascending
listConflicts_Ascending(d, status) ==
  {s \in Orderings(ConflictsWithStatus(d, status)) :
     \A i, j \in DOMAIN s :
       i < j => ~TextLess(s[j].source_changed_at, s[i].source_changed_at)}

\* listConflicts: the results ORDER BY source_changed_at DESC allows (rows
\* with equal text come in an order SQL leaves open)
listConflicts(d, status) ==
  {s \in Orderings(ConflictsWithStatus(d, status)) :
     \A i, j \in DOMAIN s :
       i < j => ~TextLess(s[i].source_changed_at, s[j].source_changed_at)}

\* summary_json of a run that has not finished (NULL)
NoSummary == [error |-> "", create |-> 0, update |-> 0, skip |-> 0, conflict |-> 0]

\* startRun: INSERT INTO sync_runs (run_id, started_at, status, mode)
startRun(d, runId, mode, startedAt) ==
  [d EXCEPT !.sync_runs = @ \cup
     {[run_id |-> runId, started_at |-> startedAt, ended_at |-> 0,
       status |-> "running", mode |-> mode, summary |-> NoSummary]}]

\* finishRun: UPDATE sync_runs SET ended_at, status, summary_json WHERE run_id = ?
finishRun(d, runId, status, endedAt, summary) ==
  [d EXCEPT !.sync_runs =
     {IF r.run_id = runId
      THEN [r EXCEPT !.ended_at = endedAt, !.status = status, !.summary = summary]
      ELSE r : r \in @}]

\* variant: the call returns without writing the file
persist_Swallowing(file, d, writeFails) == file

\* persist(): the file after the call -- the exported database, or, when
\* writeFileSync throws, the file as it was
persist(file, d, writeFails) == IF writeFails THEN file ELSE d

RunRow(d, runId) == CHOOSE r \in d.sync_runs : r.run_id = runId

(* ------------------------------- media -------------------------------- *)
(* A filename is the sequence of its parts between dots ("photo.webp" is    *)
(* <<"photo", "webp">>), a MIME type the sequence of its words              *)
(* ("image/svg+xml" is <<"image", "svg", "xml">>).                          *)

\* String.prototype.toLowerCase on the words of the model
toLowerCase(word) ==
  CASE word = "PNG"   -> "png"
    [] word = "JPG"   -> "jpg"
    [] word = "IMAGE" -> "image"
    [] word = "LOCALHOST" -> "localhost"
    [] OTHER          -> word

\* mime.includes(word), mime in lower case
MimeIncludes(mimeType, word) ==
  \E i \in DOMAIN mimeType : toLowerCase(mimeType[i]) = word

\* lines 25-33: the extension a MIME type stands for
extensionFromMime(mimeType) ==
  IF mimeType = None THEN "bin"
  ELSE LET mime == mimeType[1]
       IN IF MimeIncludes(mime, "png") THEN "png"
          ELSE IF MimeIncludes(mime, "jpeg") \/ MimeIncludes(mime, "jpg") THEN "jpg"
          ELSE IF MimeIncludes(mime, "webp") THEN "webp"
          ELSE IF MimeIncludes(mime, "gif") THEN "gif"
          ELSE IF MimeIncludes(mime, "svg") THEN "svg"
          ELSE IF MimeIncludes(mime, "pdf") THEN "pdf"
          ELSE "bin"

\* extensionFromMimeOrName: the part after the last dot of a filename that has
\* a dot, in lower case; otherwise the extension of the MIME type
extensionFromMimeOrName(mimeType, filename) ==
  IF filename # None /\ Len(filename[1]) > 1
  THEN toLowerCase(filename[1][Len(filename[1])])
  ELSE extensionFromMime(mimeType)

\* filenameFromUrl: the last path segment of the URL without its query
filenameFromUrl(url) == url.file

\* what the source serves at a URL: the bytes, and the content-type header
ServedBytes(url) == IF url.file[1] = "a" THEN "bytesA" ELSE "bytesB"

ServedContentType(url) ==
  CASE url.file = <<"a", "jpg">>  -> Some(<<"image", "jpeg">>)
    [] url.file = <<"a", "jpeg">> -> Some(<<"image", "jpeg">>)
    [] OTHER                      -> None

\* Buffer.length of the bytes served
ByteLength(bytes) == IF bytes = "bytesA" THEN 10 ELSE 20

\* FoundryClient.downloadAsset when a candidate URL answers
downloadAsset(asset) ==
  [bytes    |-> ServedBytes(asset.sourceUrl),
   mimeType |-> IF ServedContentType(asset.sourceUrl) # None
                THEN ServedContentType(asset.sourceUrl)
                ELSE asset.mimeType]

\* upsertMediaMap: INSERT ... ON CONFLICT(foundry_asset_id) DO UPDATE SET ...
upsertMediaMap(d, row) ==
  [d EXCEPT !.media_map =
     {r \in @ : r.foundry_asset_id # row.foundry_asset_id} \cup {row}]

\* `${checksum}.${ext}`
StoredFilename(checksum, ext) == <<checksum, ext>>

\* asset.assetId ?? checksum (an asset id is told apart from a checksum)
FoundryAssetId(asset, checksum) ==
  IF asset.assetId # None THEN <<"id", asset.assetId[1]>> ELSE checksum

\* copyAll's loop from the i-th asset on.  st = [db, file, dir, copied, error]:
\* database, bridge.sqlite, media directory, results so far, error thrown.
\* failAt is the index of the asset whose download fails (0: none).
RECURSIVE copyAllFrom(_, _, _, _, _)
copyAllFrom(assets, i, st, now, failAt) ==
  IF i > Len(assets) \/ st.error # ""
  THEN st
  ELSE LET asset == assets[i]
       IN IF asset.sourceUrl = NoUrl /\ asset.assetId = None
          THEN copyAllFrom(assets, i + 1, st, now, failAt)
          ELSE IF failAt = i
          THEN [st EXCEPT !.error = "media"]
          ELSE LET downloaded == downloadAsset(asset)
                   checksum   == sha256(downloaded.bytes)
                   ext        == extensionFromMimeOrName(
                                   IF asset.mimeType # None THEN asset.mimeType
                                                            ELSE downloaded.mimeType,
                                   IF asset.filename # None THEN asset.filename
                                   ELSE Some(filenameFromUrl(asset.sourceUrl)))
                   filename   == StoredFilename(checksum, ext)
                   dir        == IF \E f \in st.dir : f.name = filename
                                 THEN st.dir
                                 ELSE st.dir \cup {[name |-> filename,
                                                    bytes |-> downloaded.bytes]}
                   row        == [foundry_asset_id  |-> FoundryAssetId(asset, checksum),
                                  source_url        |-> asset.sourceUrl,
                                  stored            |-> filename,
                                  checksum          |-> checksum,
                                  size_bytes        |-> ByteLength(downloaded.bytes),
                                  last_validated_at |-> now]
                   after      == upsertMediaMap(st.db, row)
               IN copyAllFrom(assets, i + 1,
                    [db     |-> after,
                     file   |-> persist(st.file, after, FALSE),
                     dir    |-> dir,
                     copied |-> Append(st.copied,
                                  [foundryAssetId |-> row.foundry_asset_id,
                                   sourceUrl      |-> asset.sourceUrl,
                                   storedPath     |-> filename,
                                   checksum       |-> checksum,
                                   sizeBytes      |-> row.size_bytes]),
                     error  |-> ""],
                    now, failAt)

\* MediaPipeline.copyAll
copyAll(assets, d, file, dir, now, failAt) ==
  copyAllFrom(assets, 1, [db |-> d, file |-> file, dir |-> dir, copied |-> <<>>,
                          error |-> ""], now, failAt)

(* ----------------------------- sync service --------------------------- *)

\* variant: an edit in the instant of the last sync counts as a later edit
detectConflict_NotStrict(map, newSourceHash, n, notionPageId) ==
  IF map.source_hash = newSourceHash
  THEN FALSE
  ELSE getPageLastEdited(n, notionPageId) >= map.last_synced_at

\* detectConflict: source hash changed and page edited strictly after last sync
detectConflict(map, newSourceHash, n, notionPageId) ==
  IF map.source_hash = newSourceHash
  THEN FALSE
  ELSE getPageLastEdited(n, notionPageId) > map.last_synced_at

\* variant: a journal without a mapping is always planned as a creation
PreviewItem_CreateUnmapped(f, n, d, journalId) ==
  LET journal    == GetJournal(f, journalId)
      sourceHash == hashJournal(journal)
      found      == findPageByCanonicalOrAlias(n, journal.name)
      pageId     == found.pageId
      conflict   == /\ HasSyncMap(d, journalId)
                    /\ pageId # 0
                    /\ detectConflict(getSyncMap(d, journalId), sourceHash,
                                      found.notion, pageId)
  IN [notion |-> found.notion,
      item   |-> [journalId |-> journalId, notionPageId |-> pageId,
                  action |-> IF conflict THEN "conflict"
                             ELSE IF HasSyncMap(d, journalId) THEN "update" ELSE "create",
                  sourceHash |-> sourceHash]]

\* one iteration of preview's loop: the item pushed for a journal, and the
\* workspace as the adapter calls left it
PreviewItem(f, n, d, journalId) ==
  LET journal    == GetJournal(f, journalId)
      sourceHash == hashJournal(journal)
      found      == findPageByCanonicalOrAlias(n, journal.name)
      pageId     == found.pageId
      conflict   == /\ HasSyncMap(d, journalId)
                    /\ pageId # 0
                    /\ detectConflict(getSyncMap(d, journalId), sourceHash,
                                      found.notion, pageId)
  IN [notion |-> found.notion,
      item   |-> [journalId |-> journalId, notionPageId |-> pageId,
                  action |-> IF conflict THEN "conflict"
                             ELSE IF pageId # 0 THEN "update" ELSE "create",
                  sourceHash |-> sourceHash]]

\* preview: the items for the journals in order, and the workspace afterwards
RECURSIVE preview(_, _, _, _, _)
preview(f, n, d, journalIds, items) ==
  IF journalIds = <<>>
  THEN [items |-> items, notion |-> n]
  ELSE LET step == PreviewItem(f, n, d, Head(journalIds))
       IN preview(f, step.notion, d, Tail(journalIds), Append(items, step.item))

\* summarize: counts of the items per action (error is set by the catch branch)
summarize(items) ==
  [error    |-> "",
   create   |-> Cardinality({i \in DOMAIN items : items[i].action = "create"}),
   update   |-> Cardinality({i \in DOMAIN items : items[i].action = "update"}),
   skip     |-> Cardinality({i \in DOMAIN items : items[i].action = "skip"}),
   conflict |-> Cardinality({i \in DOMAIN items : items[i].action = "conflict"})]

\* the summary finishRun gets in apply's catch branch: { error: String(error) }
ErrorSummary(error) ==
  [error |-> error, create |-> 0, update |-> 0, skip |-> 0, conflict |-> 0]

\* variant: the conflict is recorded as already resolved
buildConflict_Resolved(d, n, journal, notionPageId, conflictId, now) ==
  [conflict_id       |-> conflictId,
   foundry_id        |-> journal.id,
   notion_page_id    |-> notionPageId,
   source_changed_at |-> OrElse(journal.updatedAt, toISOString(now)),
   target_changed_at |-> getPageLastEdited(n, notionPageId),
   source_hash       |-> hashJournal(journal),
   target_hash       |-> sha256(NoPayload),
   status            |-> "resolved",
   operator_notes    |-> "Conflict detected during apply. Manual resolution required."]

\* buildConflict: a new open conflict for the journal
buildConflict(d, n, journal, notionPageId, conflictId, now) ==
  [conflict_id       |-> conflictId,
   foundry_id        |-> journal.id,
   notion_page_id    |-> notionPageId,
   source_changed_at |-> OrElse(journal.updatedAt, toISOString(now)),
   target_changed_at |-> getPageLastEdited(n, notionPageId),
   source_hash       |-> hashJournal(journal),
   target_hash       |-> IF HasSyncMap(d, journal.id)
                         THEN getSyncMap(d, journal.id).target_hash
                         ELSE sha256(NoPayload),
   status            |-> "open",
   operator_notes    |-> "Conflict detected during apply. Manual resolution required."]

\* variant: the row is stamped with a time before the upsert began
NewSyncMap_StampedBeforeUpsert(journal, notionPageId, sourceHash, targetHash, now, mirrorBlockId) ==
  [foundry_id             |-> journal.id,
   notion_page_id         |-> notionPageId,
   canonical_name         |-> journal.name,
   source_hash            |-> sourceHash,
   target_hash            |-> targetHash,
   last_synced_at         |-> now - 2,
   notion_mirror_block_id |-> mirrorBlockId]

\* the SyncMap row apply builds after a region upsert
NewSyncMap(journal, notionPageId, sourceHash, targetHash, now, mirrorBlockId) ==
  [foundry_id             |-> journal.id,
   notion_page_id         |-> notionPageId,
   canonical_name         |-> journal.name,
   source_hash            |-> sourceHash,
   target_hash            |-> targetHash,
   last_synced_at         |-> now,
   notion_mirror_block_id |-> mirrorBlockId]

\* variant: the audit record does not name the document
AuditLine_Unnamed(event, journalId) == [event |-> event, journalId |-> ""]

\* writeAudit: one line appended to audit.log
AuditLine(event, journalId) == [event |-> event, journalId |-> journalId]

NoRun == [runId |-> 0, batch |-> <<>>, plan |-> <<>>, journalsById |-> <<>>,
          idx |-> 0, items |-> <<>>, written |-> <<>>, error |-> ""]

NoOutcome == [kind |-> "none", error |-> "", runId |-> 0]

\* no resolveConflict / listConflicts call has just been made
NoReturn == [call |-> "none"]

\* the operations of SyncService take their arguments from the caller
NoInput == [call |-> "none"]

\* newId("run") / newId("conflict"): an identifier no row of the table has
NewRunId(d) ==
  CHOOSE id \in RunIds :
    /\ \A r \in d.sync_runs : r.run_id # id
    /\ \A other \in RunIds : (\A r \in d.sync_runs : r.run_id # other) => id <= other

\* variant: every conflict gets the same identifier
NewConflictId_Reused(d) == 1

NewConflictId(d) == Cardinality(d.sync_conflicts) + 1

\* apply's conflict branch for one item (lines 119-125): buildConflict,
\* insertConflict, then the audit event.  fault is the call that throws.
ConflictFaults == {"none", "lastEdited", "persist", "audit"}

\* variant: the conflict branch also records the new source hash in the mapping
ApplyConflict_TouchingMap(n, d, item, journal, fault, now) ==
  [notion |-> n,
   db     |-> upsertSyncMap(
                insertConflict(d, buildConflict(d, n, journal, item.notionPageId,
                                                NewConflictId(d), now)),
                [getSyncMap(d, journal.id) EXCEPT !.source_hash = hashJournal(journal)]),
   wrote  |-> TRUE,
   error  |-> ""]

ApplyConflict(n, d, item, journal, fault, now) ==
  IF fault = "lastEdited"
  THEN [notion |-> n, db |-> d, wrote |-> FALSE, error |-> "notion"]
  ELSE [notion |-> n,
        db     |-> insertConflict(d, buildConflict(d, n, journal, item.notionPageId,
                                                   NewConflictId(d), now)),
        wrote  |-> TRUE,
        error  |-> CASE fault = "persist" -> "persist"
                     [] fault = "audit"   -> "audit"
                     [] OTHER             -> ""]

\* apply's create/update branch for one item (lines 127-155): destination page,
\* payload, region upsert with the recorded previous region, mapping upsert.
\* The region is written at now, the mapping's last_synced_at is read at now + 1.
SyncFaults == UpsertFaults \cup {"ensure", "media1", "media2", "persist", "audit"}

\* the asset whose download fails under a fault (0: none)
FailingAsset(fault) ==
  CASE fault = "media1" -> 1
    [] fault = "media2" -> 2
    [] OTHER            -> 0

PreviousMirrorBlockId(d, journalId) ==
  IF HasSyncMap(d, journalId) THEN getSyncMap(d, journalId).notion_mirror_block_id ELSE 0

\* options.includeMedia of the apply call: what the caller passed, or
\* undefined (the callers of Spec pass no option)
IncludeMediaOption == IF input.call = "apply" THEN input.includeMedia ELSE None

\* variant: the option is tested for truth, so that undefined disables media
shouldIncludeMedia_Truthy(option) == option = Some(TRUE)

\* shouldIncludeMedia = options.includeMedia !== false
shouldIncludeMedia(option) == option # Some(FALSE)

ApplySync(n, d, file, dir, item, journal, fault, now) ==
  LET ensured    == IF item.notionPageId # 0
                    THEN [notion |-> n, pageId |-> item.notionPageId]
                    ELSE ensureJournalPage(n, journal.name, now)
      include    == shouldIncludeMedia(IncludeMediaOption)
      media      == IF include
                    THEN copyAll(OrElse(journal.media, <<>>), d, file, dir, now,
                                 FailingAsset(fault))
                    ELSE [db |-> d, file |-> file, dir |-> dir, copied |-> <<>>,
                          error |-> ""]
      payload    == buildMirrorPayload(journal, media.copied, include, now)
      targetHash == sha256(payload)
      upsert     == upsertFoundryMirror(ensured.notion, ensured.pageId, payload,
                      PreviousMirrorBlockId(d, journal.id),
                      IF fault \in UpsertFaults THEN fault ELSE "none", now)
      map        == NewSyncMap(journal, ensured.pageId, item.sourceHash, targetHash,
                               now + 1, upsert.mirrorBlockId)
  IN CASE fault = "ensure" ->
            [notion |-> n, db |-> d, file |-> file, dir |-> dir,
             wrote |-> FALSE, error |-> "notion"]
       [] media.error # "" ->
            [notion |-> ensured.notion, db |-> media.db, file |-> media.file,
             dir |-> media.dir, wrote |-> FALSE, error |-> media.error]
       [] ~upsert.ok ->
            [notion |-> upsert.notion, db |-> media.db, file |-> media.file,
             dir |-> media.dir, wrote |-> FALSE, error |-> "notion"]
       [] OTHER ->
            [notion |-> upsert.notion, db |-> upsertSyncMap(media.db, map),
             file |-> media.file, dir |-> media.dir, wrote |-> TRUE,
             error  |-> CASE fault = "persist" -> "persist"
                          [] fault = "audit"   -> "audit"
                          [] OTHER             -> ""]

(* ------------------------------- actions ------------------------------ *)

\* the media the source lists for a journal: two images for d2, none for d1
SourceMedia(d) ==
  IF d = "d2"
  THEN <<MediaAsset(Some("a1"), Url("/img", <<"a", "jpg">>, ""), None, None, None),
         MediaAsset(None, Url("/img", <<"b", "png">>, ""), None, None, None)>>
  ELSE <<>>

\* the source and the destination before the bridge's first call: every
\* journal with its first body, a page an operator wrote for d1
InitialWorkspace ==
  /\ foundry = [d \in Docs |-> SourceJournal(d, "body1", SourceMedia(d))]
  /\ \E k \in InitialPageLengths :
       notion = [pages |-> <<[title |-> "d1", last_edited_time |-> 1,
                              preamble |-> k, children |-> <<>>]>>,
                 nextBlock |-> k + 1]

\* StateStore.create on a data directory without bridge.sqlite
EmptyStore ==
  /\ db = EmptyDb
  /\ disk = EmptyDb
  /\ mediaDir = {}

\* the bridge after construction, before any call
Constructed ==
  /\ audit = <<>>
  /\ clock = 1
  /\ opEdits = 0
  /\ pc = "idle"
  /\ run = NoRun
  /\ outcome = NoOutcome
  /\ lastPreview = <<>>
  /\ faults = 0
  /\ returned = NoReturn

Init ==
  /\ InitialWorkspace
  /\ EmptyStore
  /\ Constructed
  /\ input = NoInput

\* a call of this step fails (failing) or none does; failures are budgeted
InjectFault(failing) ==
  /\ failing => faults < MaxFaults
  /\ faults' = IF failing THEN faults + 1 ELSE faults

\* the source system changes a journal's body to one it never had
SourceEdit(d, body) ==
  /\ foundry[d].content = "body1"
  /\ body # "body1"
  /\ foundry' = [foundry EXCEPT ![d].content = body]
  /\ lastPreview' = <<>>
  /\ UNCHANGED <<notion, db, disk, audit, clock, opEdits, pc, run, outcome, faults, mediaDir, input>>
  /\ returned' = NoReturn

\* an operator edits a destination page by hand (adds a paragraph), in the
\* same instant as the last thing that happened (dt = 0) or later (dt = 1)
OperatorEdit(p, dt) ==
  /\ opEdits < MaxOperatorEdits
  /\ p \in PageIds(notion)
  /\ opEdits' = opEdits + 1
  /\ clock' = clock + dt
  /\ notion' = AppendChildren(notion, p, Paragraphs(notion.nextBlock, 1, "operator"), clock + dt)
  /\ lastPreview' = <<>>
  /\ UNCHANGED <<foundry, db, disk, audit, pc, run, outcome, faults, mediaDir, input>>
  /\ returned' = NoReturn

\* SyncService.preview called on its own (sync:preview)
Preview(batch) ==
  /\ pc = "idle"
  /\ lastPreview = <<>>
  /\ LET result == preview(foundry, notion, db, batch, <<>>)
     IN /\ lastPreview' = result.items
        /\ notion' = result.notion
  /\ UNCHANGED <<foundry, db, disk, audit, clock, opEdits, pc, run, outcome, faults, mediaDir, input>>
  /\ returned' = NoReturn

\* apply, lines 101-106: newId("run") and startRun outside the try block, then
\* the plan from preview inside it.  fault: "persist" (startRun's file write
\* throws), "preview" (an adapter call of preview throws) or "none"
ApplyStart(batch, fault) ==
  /\ pc = "idle"
  /\ \E id \in RunIds : \A r \in db.sync_runs : r.run_id # id
  /\ InjectFault(fault # "none")
  /\ db' = startRun(db, NewRunId(db), "incremental", clock)
  /\ disk' = persist(disk, db', fault = "persist")
  /\ LET result == preview(foundry, notion, db', batch, <<>>)
         locals == [NoRun EXCEPT !.runId = NewRunId(db), !.batch = batch]
     IN CASE fault = "persist" ->
               /\ pc' = "idle"
               /\ run' = NoRun
               /\ notion' = notion
               /\ outcome' = [kind |-> "thrown", error |-> "persist", runId |-> NewRunId(db)]
          [] fault = "preview" ->
               /\ pc' = "catch"
               /\ run' = [locals EXCEPT !.error = "source"]
               /\ notion' = notion
               /\ outcome' = NoOutcome
          [] OTHER ->
               /\ pc' = "load"
               /\ run' = [locals EXCEPT !.plan = result.items]
               /\ notion' = result.notion
               /\ outcome' = NoOutcome
  /\ lastPreview' = <<>>
  /\ UNCHANGED <<foundry, audit, clock, opEdits, mediaDir, input>>
  /\ returned' = NoReturn

\* apply, line 107: the journals are loaded a second time
ApplyLoad(fails) ==
  /\ pc = "load"
  /\ InjectFault(fails)
  /\ IF fails
     THEN /\ run' = [run EXCEPT !.error = "source"]
          /\ pc' = "catch"
     ELSE /\ run' = [run EXCEPT
                       !.journalsById = [d \in SeqToSet(run.batch) |-> GetJournal(foundry, d)],
                       !.idx = 1]
          /\ pc' = "items"
  /\ UNCHANGED <<foundry, notion, db, disk, audit, clock, opEdits, outcome, lastPreview, mediaDir, input>>
  /\ returned' = NoReturn

CurrentItem == run.plan[run.idx]

\* the part of one loop iteration shared by both branches: the file after
\* the store call (file: as the media pipeline left it), the media directory,
\* the audit line, the loop variables, the error caught
FinishItem(result, event, writeFails, file, dir) ==
  /\ notion' = result.notion
  /\ db' = result.db
  /\ disk' = IF result.wrote THEN persist(file, result.db, writeFails) ELSE file
  /\ mediaDir' = dir
  /\ audit' = IF result.error = ""
              THEN Append(audit, AuditLine(event, CurrentItem.journalId))
              ELSE audit
  /\ pc' = IF result.error = "" THEN "items" ELSE "catch"
  /\ run' = [run EXCEPT
       !.idx     = IF result.error = "" THEN @ + 1 ELSE @,
       !.items   = IF result.error = "" THEN Append(@, CurrentItem) ELSE @,
       !.written = IF event = "journal_synced" /\ result.wrote /\ ~writeFails
                   THEN Append(@, getSyncMap(result.db, CurrentItem.journalId))
                   ELSE @,
       !.error   = result.error]

\* apply, lines 110-166: one iteration of the item loop
ApplyItem(fault) ==
  /\ pc = "items"
  /\ run.idx <= Len(run.plan)
  /\ InjectFault(fault # "none")
  /\ LET item    == CurrentItem
         journal == run.journalsById[item.journalId]
     IN IF item.action = "conflict"
        THEN /\ fault \in ConflictFaults
             /\ clock' = clock
             /\ FinishItem(ApplyConflict(notion, db, item, journal, fault, clock),
                           "conflict_created", fault = "persist", disk, mediaDir)
        ELSE /\ fault \in SyncFaults
             /\ fault = "ensure" => item.notionPageId = 0
             /\ fault = "delete" =>
                  BlockExists(notion, PreviousMirrorBlockId(db, journal.id))
             /\ FailingAsset(fault) <= Len(OrElse(journal.media, <<>>))
             /\ FailingAsset(fault) > 0 => shouldIncludeMedia(IncludeMediaOption)
             /\ clock' = IF fault \in {"none", "persist", "audit"} THEN clock + 1 ELSE clock
             /\ LET result == ApplySync(notion, db, disk, mediaDir, item, journal,
                                        fault, clock)
                IN FinishItem(result, "journal_synced", fault = "persist",
                              result.file, result.dir)
  /\ UNCHANGED <<foundry, opEdits, outcome, lastPreview, input>>
  /\ returned' = NoReturn

\* apply, lines 168-175: finishRun("success") inside the try block, then return
ApplyFinish(writeFails) ==
  /\ pc = "items"
  /\ run.idx > Len(run.plan)
  /\ InjectFault(writeFails)
  /\ db' = finishRun(db, run.runId, "success", clock, summarize(run.items))
  /\ disk' = persist(disk, db', writeFails)
  /\ IF writeFails
     THEN /\ pc' = "catch"
          /\ run' = [run EXCEPT !.error = "persist"]
          /\ outcome' = outcome
     ELSE /\ pc' = "idle"
          /\ run' = NoRun
          /\ outcome' = [kind |-> "returned", error |-> "", runId |-> run.runId]
  /\ UNCHANGED <<foundry, notion, audit, clock, opEdits, lastPreview, mediaDir, input>>
  /\ returned' = NoReturn

\* variant: the catch branch takes back the mappings the run has written
ApplyCatch_RollingBack(writeFails) ==
  /\ pc = "catch"
  /\ InjectFault(writeFails)
  /\ db' = finishRun([db EXCEPT !.sync_map = @ \ SeqToSet(run.written)],
                     run.runId, "failed", clock, ErrorSummary(run.error))
  /\ disk' = persist(disk, db', writeFails)
  /\ pc' = "idle"
  /\ run' = NoRun
  /\ outcome' = [kind |-> "thrown",
                 error |-> IF writeFails THEN "persist" ELSE run.error,
                 runId |-> run.runId]
  /\ UNCHANGED <<foundry, notion, audit, clock, opEdits, lastPreview, mediaDir, input>>
  /\ returned' = NoReturn

\* the catch block itself: finishRun("failed", { error }), then throw error;
\* when finishRun's file write throws, that error leaves apply instead
CatchBranch(writeFails) ==
  /\ db' = finishRun(db, run.runId, "failed", clock, ErrorSummary(run.error))
  /\ disk' = persist(disk, db', writeFails)
  /\ pc' = "idle"
  /\ run' = NoRun
  /\ outcome' = [kind |-> "thrown",
                 error |-> IF writeFails THEN "persist" ELSE run.error,
                 runId |-> run.runId]
  /\ UNCHANGED <<foundry, notion, audit, clock, opEdits, lastPreview, mediaDir, input>>
  /\ returned' = NoReturn

\* apply, lines 176-181: finishRun("failed", { error }) and rethrow
ApplyCatch(writeFails) ==
  /\ pc = "catch"
  /\ InjectFault(writeFails)
  /\ CatchBranch(writeFails)

\* the message resolveConflict stores: `[${resolution}] ${notes}`
ResolutionMessage(resolution, notes) == <<resolution, notes>>

\* how a resolveConflict call ended: the boolean it returned, or the error
\* persist() threw
ResolveOutcome(conflictId, message, changed, writeFails) ==
  [call       |-> "resolveConflict",
   kind       |-> IF writeFails THEN "thrown" ELSE "returned",
   error      |-> IF writeFails THEN "persist" ELSE "",
   conflictId |-> conflictId,
   notes      |-> message,
   ok         |-> changed]

\* SyncService.resolveConflict: status "resolved", notes "[resolution] notes";
\* the file is rewritten only when a row changed; returns whether one did
ResolveConflict(conflictId, resolution, writeFails) ==
  /\ pc = "idle"
  /\ InjectFault(writeFails)
  /\ writeFails => ConflictExists(db, conflictId)
  /\ db' = updateConflictResolution(db, conflictId, "resolved",
                                    ResolutionMessage(resolution, "notes"))
  /\ disk' = IF ConflictExists(db, conflictId) THEN persist(disk, db', writeFails) ELSE disk
  /\ returned' = ResolveOutcome(conflictId, ResolutionMessage(resolution, "notes"),
                                ConflictExists(db, conflictId), writeFails)
  /\ lastPreview' = <<>>
  /\ UNCHANGED <<foundry, notion, audit, clock, opEdits, pc, run, outcome, mediaDir, input>>

Next ==
  \/ \E d \in EditableDocs, body \in Contents : SourceEdit(d, body)
  \/ \E p \in 1..Cardinality(Docs), dt \in {0, 1} : OperatorEdit(p, dt)
  \/ \E b \in Batches : Preview(b)
  \/ \E b \in Batches, fault \in {"none", "persist", "preview"} : ApplyStart(b, fault)
  \/ \E f \in BOOLEAN : ApplyLoad(f)
  \/ \E fault \in ConflictFaults \cup SyncFaults : ApplyItem(fault)
  \/ \E w \in BOOLEAN : ApplyFinish(w)
  \/ \E w \in BOOLEAN : ApplyCatch(w)
  \/ \E c \in 1..(Cardinality(db.sync_conflicts) + 1), r \in Resolutions, w \in BOOLEAN :
       ResolveConflict(c, r, w)

Spec == Init /\ [][Next]_vars

(* ------------------------------ properties ---------------------------- *)

\* an apply invocation takes the loop step for its current item
ItemStep == pc = "items" /\ run.idx <= Len(run.plan) /\ run' # run

\* the callout (generated-region) blocks on any page that were written for d
\* (the preamble of a page holds operator paragraphs only)
RegionsOf(n, d) ==
  UNION {{b \in {n.pages[p].children[i] : i \in DOMAIN n.pages[p].children} :
            b.type = "callout" /\ b.doc = d} : p \in PageIds(n)}

\* C1: for a document with a stored mapping and a destination match, preview
\* reports conflict exactly when the source fingerprint computed now differs
\* from the mapping's and the page's last-edited time is strictly later than
\* the mapping's last-synced time; in every other case it reports update.
C1_ConflictIffChangedAndEditedLater ==
  \A i \in DOMAIN lastPreview :
    LET item == lastPreview[i]
    IN (HasSyncMap(db, item.journalId) /\ item.notionPageId # 0) =>
         LET map     == getSyncMap(db, item.journalId)
             changed == hashJournal(GetJournal(foundry, item.journalId)) # map.source_hash
             later   == notion.pages[item.notionPageId].last_edited_time > map.last_synced_at
         IN /\ item.action = "conflict" <=> (changed /\ later)
            /\ item.action # "conflict" => item.action = "update"

\* C1 case: a preview reported a conflict for a mapped, matched document
C1_Witness ==
  \E i \in DOMAIN lastPreview :
    /\ HasSyncMap(db, lastPreview[i].journalId)
    /\ lastPreview[i].notionPageId # 0
    /\ lastPreview[i].action = "conflict"

\* C2: a preview call leaves the state store (mappings, conflicts, media and
\* run records), its file, the audit log and the destination as they were.
C2_PreviewMutatesNothing ==
  [][lastPreview' # <<>> =>
       /\ db' = db
       /\ disk' = disk
       /\ audit' = audit
       /\ notion' = notion
       /\ foundry' = foundry]_vars

\* C2 case: a preview has returned a plan that holds a create item
C2_Witness ==
  \E i \in DOMAIN lastPreview :
    /\ lastPreview[i].action = "create"
    /\ findChildPageByTitle(notion, lastPreview[i].journalId) = 0

\* C3: when apply processes a conflict item the destination and every mapping
\* stay as they were; the only effects are one new conflict record with
\* status open for that document and one audit event conflict_created.
C3_ConflictItemWritesOnlyConflictAndAudit ==
  [][(ItemStep /\ CurrentItem.action = "conflict") =>
       LET added == db'.sync_conflicts \ db.sync_conflicts
       IN /\ notion' = notion
          /\ db'.sync_map = db.sync_map
          /\ db'.media_map = db.media_map
          /\ db'.sync_runs = db.sync_runs
          /\ db.sync_conflicts \subseteq db'.sync_conflicts
          /\ Cardinality(added) <= 1
          /\ \A c \in added : c.status = "open" /\ c.foundry_id = CurrentItem.journalId
          /\ \/ audit' = audit
             \/ audit' = Append(audit, AuditLine("conflict_created", CurrentItem.journalId))
          /\ pc' = "items" =>
               /\ Cardinality(added) = 1
               /\ audit' = Append(audit, AuditLine("conflict_created", CurrentItem.journalId))]_vars

\* C3 case: apply has just processed a conflict item
C3_Witness ==
  /\ pc = "items"
  /\ audit # <<>>
  /\ audit[Len(audit)].event = "conflict_created"
  /\ \E c \in db.sync_conflicts : c.status = "open"

\* C4: a second apply of an unchanged document (the mapping's source
\* fingerprint is the same before and after) leaves the mapping's target
\* fingerprint and its generated-region identifier the same as well.
C4_SecondApplySameTargetAndRegion ==
  [][\A d \in Docs :
       (/\ ItemStep
        /\ HasSyncMap(db, d)
        /\ HasSyncMap(db', d)
        /\ getSyncMap(db', d).source_hash = getSyncMap(db, d).source_hash
        /\ CurrentItem.journalId = d
        /\ pc' = "items") =>
         /\ getSyncMap(db', d).target_hash = getSyncMap(db, d).target_hash
         /\ getSyncMap(db', d).notion_mirror_block_id =
              getSyncMap(db, d).notion_mirror_block_id]_vars

\* C5: the destination holds at most one generated region per document.
C5_AtMostOneRegionPerDocument ==
  \A d \in Docs : Cardinality(RegionsOf(notion, d)) <= 1

\* s is an initial segment of t
IsPrefix(s, t) == Len(s) <= Len(t) /\ SubSeq(t, 1, Len(s)) = s

\* the region identifier the mapping records for the document apply is at
RecordedRegion ==
  IF pc = "items" /\ run.idx <= Len(run.plan)
  THEN PreviousMirrorBlockId(db, CurrentItem.journalId)
  ELSE 0

\* C6: no step of the engine changes or removes a block of a destination
\* page other than the block recorded as the previous region of the document
\* being applied, which is a block the bridge wrote; new blocks are only
\* appended after the blocks that were there, and no page disappears.
C6_RewriteIsNonDestructive ==
  [][opEdits' = opEdits =>
       \A p \in PageIds(notion) :
         /\ p \in PageIds(notion')
         /\ LET old  == notion.pages[p]
                new  == notion'.pages[p]
                kept == SelectSeq(old.children, LAMBDA b : b.id # RecordedRegion)
            IN /\ new.title = old.title
               /\ new.preamble = old.preamble
               /\ IsPrefix(old.children, new.children) \/ IsPrefix(kept, new.children)
               /\ \A i \in DOMAIN old.children :
                    old.children[i].id = RecordedRegion => old.children[i].by = "bridge"]_vars

\* C6 case: a page whose region was rewritten after an operator added a
\* paragraph below the first region
C6_Witness ==
  \E p \in PageIds(notion) :
    \E h, i, j \in DOMAIN notion.pages[p].children :
      /\ h < i /\ i < j
      /\ notion.pages[p].preamble > 0
      /\ notion.pages[p].children[h].type = "heading_2"
      /\ notion.pages[p].children[i].by = "operator"
      /\ notion.pages[p].children[j].type = "callout"
      /\ notion.pages[p].children[j].content # <<>>

\* C7: every destination page carries at most one Foundry Mirror heading.
C7_SingleHeadingPerPage ==
  \A p \in PageIds(notion) :
    Cardinality({i \in DOMAIN notion.pages[p].children :
                   notion.pages[p].children[i].type = "heading_2"}) <= 1

\* C8: the mapping table holds at most one mapping per source identifier, and
\* no step removes the mapping of a source identifier, in the database or in
\* its file.
C8_OneMappingPerSourceNeverRemoved ==
  /\ [](\A d \in Docs : Cardinality(SyncMapRows(db, d)) <= 1)
  /\ [][/\ \A r \in db.sync_map : HasSyncMap(db', r.foundry_id)
        /\ \A r \in disk.sync_map : HasSyncMap(disk', r.foundry_id)]_vars

\* C8 case: the mapping of d1 has been written by two applies
C8_Witness ==
  /\ Cardinality(SyncMapRows(db, "d1")) = 1
  /\ Cardinality({i \in DOMAIN audit :
                    audit[i] = AuditLine("journal_synced", "d1")}) >= 2

\* C9: a run record whose status is success or failed is never written again.
C9_FinishedRunRecordNeverRewritten ==
  [][\A r \in db.sync_runs :
       r.status \in {"success", "failed"} => r \in db'.sync_runs]_vars

\* C10: when an error has escaped apply's loop, the catch branch marks the
\* run failed with the error detail and throws (the caught error, whenever
\* its own state write goes through, and then the file shows the failed run
\* too), and every mapping written earlier in the run is still in the
\* database and in its file exactly as written.
C10_FailedRunKeepsWrittenMappings ==
  [][(pc = "catch" /\ pc' = "idle") =>
       /\ run.error # ""
       /\ RunRow(db', run.runId).status = "failed"
       /\ RunRow(db', run.runId).summary.error = run.error
       /\ outcome'.kind = "thrown"
       /\ outcome'.runId = run.runId
       /\ faults' = faults =>
            /\ outcome'.error = run.error
            /\ RunRow(disk', run.runId).status = "failed"
            /\ RunRow(disk', run.runId).summary.error = run.error
       /\ \A i \in DOMAIN run.written :
            /\ run.written[i] \in db'.sync_map
            /\ run.written[i] \in disk'.sync_map]_vars

\* C10 case: the only run so far wrote the mapping of d1 and then failed on
\* a destination call for its second item
C10_Witness ==
  /\ pc = "idle"
  /\ outcome.kind = "thrown"
  /\ outcome.error = "notion"
  /\ Cardinality(db.sync_runs) = 1
  /\ \A r \in db.sync_runs : r.status = "failed"
  /\ HasSyncMap(disk, "d1")

\* C11: a destination call that fails while apply processes an item does not
\* abort the run: the loop goes on to the remaining items.
C11_AdapterFailureDoesNotAbortRun ==
  [][(ItemStep /\ run'.error = "notion") => pc' = "items"]_vars

\* the step is a resolveConflict call; its result is in returned'
ResolveStep == returned'.call = "resolveConflict"

ConflictIds(d) == {r.conflict_id : r \in d.sync_conflicts}

\* C15: resolveConflict returns true exactly when a conflict with the given
\* id exists; for an unknown id it returns false without throwing and changes
\* nothing; resolving a conflict again is allowed, and the conflict then holds
\* the status and the notes of the latest call.
C15_ResolveReportsWhetherConflictExists ==
  [][ResolveStep =>
       LET c == returned'.conflictId IN
       /\ returned'.kind = "returned" => (returned'.ok <=> c \in ConflictIds(db))
       /\ c \notin ConflictIds(db) =>
            /\ returned'.kind = "returned"
            /\ ~returned'.ok
            /\ UNCHANGED <<foundry, notion, db, disk, audit, mediaDir>>
       /\ c \in ConflictIds(db) =>
            \A r \in db'.sync_conflicts :
              r.conflict_id = c =>
                r.status = "resolved" /\ r.operator_notes = returned'.notes]_vars

\* a call for an existing conflict returned true and the conflict holds its notes
C15_Witness ==
  /\ returned.call = "resolveConflict"
  /\ returned.kind = "returned"
  /\ returned.ok
  /\ returned.notes = ResolutionMessage("manual_merge", "notes")
  /\ \E r \in db.sync_conflicts :
       /\ r.conflict_id = returned.conflictId
       /\ r.operator_notes = returned.notes
       /\ r.status = "resolved"

\* C16: a conflict is created with status open, and only by apply's step for
\* an item classified conflict; afterwards only resolveConflict changes it,
\* never preview or apply; it is never removed and never returns to open.
C16_ConflictLifecycle ==
  [][/\ \A r \in db'.sync_conflicts :
          r.conflict_id \notin ConflictIds(db) =>
            /\ r.status = "open"
            /\ ItemStep
            /\ CurrentItem.action = "conflict"
     /\ \A r \in db.sync_conflicts :
          \E q \in db'.sync_conflicts :
            /\ q.conflict_id = r.conflict_id
            /\ q # r => ResolveStep /\ q.status # "open"
            /\ r.status # "open" => q.status # "open"]_vars

\* a conflict that apply recorded has been resolved, and a later run has ended
C16_Witness ==
  /\ \E r \in db.sync_conflicts : r.status = "resolved"
  /\ \E r \in db.sync_runs : r.run_id = 2 /\ r.status # "running"

\* a destination page matches the journal's canonical name
DestinationMatch(n, f, journalId) ==
  \E p \in DOMAIN n.pages : n.pages[p].title = GetJournal(f, journalId).name

\* C19: preview gives each candidate document exactly one item with one
\* action: create when no destination page matches, update when a page matches
\* and there is no mapping, update or conflict when there are both; no document
\* gets create while a page matches.
C19_PreviewAssignsOneAction ==
  lastPreview # <<>> =>
    /\ [i \in DOMAIN lastPreview |-> lastPreview[i].journalId] \in Batches
    /\ \A i \in DOMAIN lastPreview :
         LET item   == lastPreview[i]
             match  == DestinationMatch(notion, foundry, item.journalId)
             mapped == HasSyncMap(db, item.journalId)
         IN /\ item.action \in {"create", "update", "conflict"}
            /\ ~match => item.action = "create" /\ item.notionPageId = 0
            /\ (match /\ ~mapped) => item.action = "update"
            /\ (match /\ mapped) => item.action \in {"update", "conflict"}
            /\ item.action = "create" => ~match
            /\ match => notion.pages[item.notionPageId].title
                          = GetJournal(foundry, item.journalId).name

\* one preview planned an update for a matched document without a mapping and
\* a creation for an unmatched one
C19_Witness ==
  /\ \E i \in DOMAIN lastPreview :
       /\ lastPreview[i].action = "update"
       /\ ~HasSyncMap(db, lastPreview[i].journalId)
       /\ DestinationMatch(notion, foundry, lastPreview[i].journalId)
  /\ \E i \in DOMAIN lastPreview :
       /\ lastPreview[i].action = "create"
       /\ ~DestinationMatch(notion, foundry, lastPreview[i].journalId)

(* --------------------- hashJournal on its own -------------------------- *)

\* media lists of the journals hashed: none, one reference, the same reference
\* with another size, a reference with another filename
HashMedia ==
  {<<>>,
   <<MediaAsset(Some("a1"), Url("/img", <<"a", "png">>, ""), Some(<<"a", "png">>),
                Some(<<"image", "png">>), Some(10))>>,
   <<MediaAsset(Some("a1"), Url("/img", <<"a", "png">>, ""), Some(<<"a", "png">>),
                Some(<<"image", "png">>), Some(20))>>,
   <<MediaAsset(Some("a1"), Url("/img", <<"a", "png">>, ""), Some(<<"b", "png">>),
                Some(<<"image", "png">>), Some(10))>>}

\* the journals hashed (FoundryJournal values)
HashJournals ==
  [id : {"d1"}, name : {"d1"}, type : {None},
   content : Contents,
   aliases : {None, Some(<<>>), Some(<<"alias">>)},
   folderPath : {None, Some(<<"folder">>)},
   folderId : {None, Some("f1")},
   createdAt : {None},
   updatedAt : {None, Some(<<2, 0>>)},
   media : {Some(m) : m \in HashMedia}]

InitHash ==
  /\ InitialWorkspace
  /\ EmptyStore
  /\ Constructed
  /\ input \in [call : {"hashJournal"}, a : HashJournals, b : HashJournals]

CallHashJournal ==
  /\ input.call = "hashJournal"
  /\ returned = NoReturn
  /\ returned' = [call |-> "hashJournal", a |-> hashJournal(input.a), b |-> hashJournal(input.b)]
  /\ UNCHANGED <<foundry, notion, db, disk, audit, clock, opEdits, pc, run, outcome,
                 lastPreview, faults, mediaDir, input>>

SpecHash == InitHash /\ [][CallHashJournal]_vars

\* the synchronizable fields of a journal: identifier, name, aliases, path,
\* last-modified, body, media references reduced to id, URL, filename, MIME type
SyncFields(j) ==
  [id |-> j.id, name |-> j.name, aliases |-> OrElse(j.aliases, <<>>),
   path |-> OrElse(j.folderPath, <<>>), updatedAt |-> j.updatedAt, content |-> j.content,
   media |-> [i \in DOMAIN OrElse(j.media, <<>>) |->
                [x \in {"assetId", "sourceUrl", "filename", "mimeType"} |->
                   OrElse(j.media, <<>>)[i][x]]]]

\* two journals differ in the field named and in no other synchronizable field
DifferOnlyIn(a, b, field) ==
  /\ SyncFields(a)[field] # SyncFields(b)[field]
  /\ \A x \in DOMAIN SyncFields(a) \ {field} : SyncFields(a)[x] = SyncFields(b)[x]

\* C18: two journals that differ only in body, only in aliases, only in path
\* or only in the media list have different fingerprints; two journals equal
\* in every synchronizable field have equal fingerprints whatever their other
\* metadata (media size, folder id, creation time).
C18_FingerprintSensitivity ==
  returned.call = "hashJournal" =>
    /\ \A field \in {"content", "aliases", "path", "media"} :
         DifferOnlyIn(input.a, input.b, field) => returned.a # returned.b
    /\ SyncFields(input.a) = SyncFields(input.b) => returned.a = returned.b

\* two journals that differ only in their aliases (and in their folder id)
\* have been hashed
C18_Witness ==
  /\ returned.call = "hashJournal"
  /\ DifferOnlyIn(input.a, input.b, "aliases")
  /\ input.a.folderId # input.b.folderId
  /\ returned.a # returned.b

(* --------------------- listConflicts on its own ------------------------ *)

\* instants at which the source journals of stored conflicts were changed
ConflictStamps == {2, 10, 11}

\* a stored conflict: open as apply recorded it, or resolved by an operator
StoredConflict(id, stamp, resolved) ==
  [conflict_id       |-> id,
   foundry_id        |-> "d1",
   notion_page_id    |-> 1,
   source_changed_at |-> toISOString(stamp),
   target_changed_at |-> 1,
   source_hash       |-> sha256("basis"),
   target_hash       |-> sha256(NoPayload),
   status            |-> IF resolved THEN "resolved" ELSE "open",
   operator_notes    |-> IF resolved
                         THEN ResolutionMessage("manual_merge", "notes")
                         ELSE "Conflict detected during apply. Manual resolution required."]

\* the conflict tables with k rows
ConflictTables(k) ==
  {{StoredConflict(id, stamp[id], resolved[id]) : id \in 1..k} :
     stamp \in [1..k -> ConflictStamps], resolved \in [1..k -> BOOLEAN]}

InitList ==
  /\ InitialWorkspace
  /\ Constructed
  /\ mediaDir = {}
  /\ input = [call |-> "listConflicts"]
  /\ \E k \in 0..MaxConflicts :
       \E table \in ConflictTables(k) :
         /\ db = [EmptyDb EXCEPT !.sync_conflicts = table]
         /\ disk = db

ListConflicts(status) ==
  /\ input.call = "listConflicts"
  /\ \E rows \in listConflicts(db, status) :
       returned' = [call |-> "listConflicts", status |-> status, rows |-> rows]
  /\ UNCHANGED <<foundry, notion, db, disk, audit, clock, opEdits, pc, run, outcome,
                 lastPreview, faults, mediaDir, input>>

SpecList ==
  InitList /\ [][\E status \in {"open", "resolved", "ignored", "all"} : ListConflicts(status)]_vars

\* the instant an ISO text of two digits stands for
InstantOf(text) == 10 * text[1] + text[2]

\* C17: listConflicts(status) returns exactly the stored conflicts with that
\* status (all of them for status all), each once, ordered by the instant of
\* the source change, latest first.
C17_ListConflictsFilteredAndOrdered ==
  returned.call = "listConflicts" =>
    LET rows == returned.rows
    IN /\ {rows[i] : i \in DOMAIN rows}
            = {r \in db.sync_conflicts : returned.status = "all" \/ r.status = returned.status}
       /\ \A i, j \in DOMAIN rows : i # j => rows[i] # rows[j]
       /\ \A i, j \in DOMAIN rows :
            i < j => InstantOf(rows[i].source_changed_at)
                       >= InstantOf(rows[j].source_changed_at)

\* a listing of the open conflicts returned two of them, changed at different
\* instants, and left a resolved one out
C17_Witness ==
  /\ returned.call = "listConflicts"
  /\ returned.status = "open"
  /\ Len(returned.rows) = 2
  /\ returned.rows[1].source_changed_at # returned.rows[2].source_changed_at
  /\ \E r \in db.sync_conflicts : r.status = "resolved"

(* ---------------- extensionFromMimeOrName on its own ------------------- *)

MimeTypes ==
  {<<"image", "jpeg">>, <<"image", "jpg">>, <<"IMAGE", "PNG">>, <<"image", "webp">>,
   <<"image", "gif">>, <<"image", "svg", "xml">>, <<"application", "pdf">>,
   <<"application", "octet-stream">>, <<"text", "plain">>}

Filenames ==
  {<<"photo", "webp">>, <<"photo", "png">>, <<"photo", "JPG">>, <<"notes", "txt">>,
   <<"archive", "tar", "gz">>, <<"README">>}

InitExtension ==
  /\ InitialWorkspace
  /\ EmptyStore
  /\ Constructed
  /\ input \in [call : {"extensionFromMimeOrName"},
                mimeType : {None} \cup {Some(m) : m \in MimeTypes},
                filename : {None} \cup {Some(f) : f \in Filenames}]

CallExtension ==
  /\ input.call = "extensionFromMimeOrName"
  /\ returned = NoReturn
  /\ returned' = [call |-> "extensionFromMimeOrName",
                  ext  |-> extensionFromMimeOrName(input.mimeType, input.filename)]
  /\ UNCHANGED <<foundry, notion, db, disk, audit, clock, opEdits, pc, run, outcome,
                 lastPreview, faults, mediaDir, input>>

SpecExtension == InitExtension /\ [][CallExtension]_vars

\* C14: the storage extension is the one of the declared MIME type when the
\* MIME type gives one, else the filename's extension when the filename has
\* one, else the generic binary extension bin.
C14_ExtensionFromMimeFirst ==
  returned.call = "extensionFromMimeOrName" =>
    LET byMime == extensionFromMime(input.mimeType)
        name   == OrElse(input.filename, <<"">>)
    IN returned.ext = IF byMime # "bin" THEN byMime
                      ELSE IF Len(name) > 1 THEN toLowerCase(name[Len(name)])
                      ELSE "bin"

(* ------------------------- copyAll on its own --------------------------- *)

\* URLs the source serves: three with the same bytes (two filenames, one
\* query), one with other bytes
MediaUrls ==
  {Url("/img", <<"a", "jpg">>, ""), Url("/img", <<"a", "jpeg">>, ""),
   Url("/img", <<"a", "jpg">>, "v=2"), Url("/img", <<"b", "png">>, "")}

\* the media references copied
MediaAssets ==
  [assetId   : {None, Some("a1"), Some("a2")},
   sourceUrl : MediaUrls,
   filename  : {None, Some(<<"pic", "webp">>)},
   mimeType  : {None, Some(<<"IMAGE", "PNG">>)},
   sizeBytes : {None}]

\* copyAll gets the media of one journal: two references with different URLs
InitMedia ==
  /\ InitialWorkspace
  /\ EmptyStore
  /\ Constructed
  /\ \E a, b \in MediaAssets :
       /\ a.sourceUrl # b.sourceUrl
       /\ input = [call |-> "copyAll", assets |-> <<a, b>>]

CallCopyAll ==
  /\ input.call = "copyAll"
  /\ returned = NoReturn
  /\ LET result == copyAll(input.assets, db, disk, mediaDir, clock, 0)
     IN /\ db' = result.db
        /\ disk' = result.file
        /\ mediaDir' = result.dir
        /\ returned' = [call |-> "copyAll", copied |-> result.copied]
  /\ UNCHANGED <<foundry, notion, audit, clock, opEdits, pc, run, outcome,
                 lastPreview, faults, input>>

SpecMedia == InitMedia /\ [][CallCopyAll]_vars

\* C13: two media references whose downloaded bytes are identical leave, once
\* both are copied, exactly one stored file, and two media rows when their
\* asset ids differ, one when they share an id.
C13_IdenticalBytesOneStoredFile ==
  returned.call = "copyAll" =>
    LET a == input.assets[1]
        b == input.assets[2]
    IN ServedBytes(a.sourceUrl) = ServedBytes(b.sourceUrl) =>
         /\ Cardinality(mediaDir) = 1
         /\ Cardinality(db.media_map) = IF a.assetId = b.assetId THEN 1 ELSE 2

\* C12: when the download of one media asset of a journal fails while apply
\* processes the journal, the journal's other assets are still copied and its
\* sync goes on: the region is written, the mapping is stored and the loop
\* continues.
C12_MediaFailureAffectsOneAsset ==
  [][(ItemStep /\ run'.error = "media") =>
       /\ pc' = "items"
       /\ HasSyncMap(db', CurrentItem.journalId)
       /\ Cardinality(db'.media_map)
            >= Len(run.journalsById[CurrentItem.journalId].media[1]) - 1]_vars

(* ------------------ first apply on an empty workspace ------------------ *)

\* names the journals of the source can have
JournalNames == {"Tavern", "Harbor"}

\* nothing synced yet, no page under the Journals root
InitFresh ==
  /\ \E names \in [Docs -> JournalNames] :
       foundry = [d \in Docs |->
                    [SourceJournal(d, "body1", SourceMedia(d)) EXCEPT !.name = names[d]]]
  /\ notion = [pages |-> <<>>, nextBlock |-> 1]
  /\ EmptyStore
  /\ Constructed
  /\ input = NoInput

NextFresh ==
  \/ \E b \in Batches : Preview(b)
  \/ \E b \in Batches, fault \in {"none", "persist", "preview"} : ApplyStart(b, fault)
  \/ \E f \in BOOLEAN : ApplyLoad(f)
  \/ \E fault \in ConflictFaults \cup SyncFaults : ApplyItem(fault)
  \/ \E w \in BOOLEAN : ApplyFinish(w)
  \/ \E w \in BOOLEAN : ApplyCatch(w)

SpecFresh == InitFresh /\ [][NextFresh]_vars

\* C20: for n journals without mapping and without matching page, preview
\* reports n creations, and the apply that follows creates n pages and n
\* mappings and records no conflict.
C20_FreshBatchCreatesOnePageEach ==
  /\ (lastPreview # <<>> /\ db.sync_runs = {}) =>
       \A i \in DOMAIN lastPreview : lastPreview[i].action = "create"
  /\ (outcome.kind = "returned" /\ Cardinality(db.sync_runs) = 1) =>
       LET n == RunRow(db, outcome.runId).summary.create
       IN /\ n \in {Len(b) : b \in Batches}
          /\ Len(notion.pages) = n
          /\ Cardinality(db.sync_map) = n
          /\ db.sync_conflicts = {}

(* ------------------- the mapping an apply item leaves ------------------ *)

\* the generated-region blocks a step has added to the destination
NewRegions == {b \in RegionsOf(notion', CurrentItem.journalId) : b.id >= notion.nextBlock}

\* C21: after apply has processed a create or update item without an error,
\* the mapping stored for the item's document holds the fingerprint this run
\* computed for it, the matched page (or, without a match, the page that now
\* carries the document's name) and the identifier of the region block this
\* step has written.
C21_MappingAfterSync ==
  [][(ItemStep /\ CurrentItem.action \in {"create", "update"} /\ run'.error = "") =>
       LET item == CurrentItem
           d    == item.journalId
           map  == getSyncMap(db', d)
       IN /\ Cardinality(SyncMapRows(db', d)) = 1
          /\ map.source_hash = item.sourceHash
          /\ map.notion_page_id = IF item.notionPageId # 0
                                  THEN item.notionPageId
                                  ELSE findChildPageByTitle(notion', run.journalsById[d].name)
          /\ Cardinality(NewRegions) = 1
          /\ \A b \in NewRegions :
               /\ map.notion_mirror_block_id = b.id
               /\ PageOfBlock(notion', b.id) = map.notion_page_id
          /\ getSyncMap(disk', d) = map]_vars

\* C21 case: d1 was synced with its first body, the source changed it, and a
\* later run has synced it again: the mapping holds the fingerprint of the
\* changed journal and the second region
C21_Witness ==
  /\ pc = "items"
  /\ HasSyncMap(db, "d1")
  /\ foundry["d1"].content = "body2"
  /\ getSyncMap(db, "d1").source_hash = hashJournal(GetJournal(foundry, "d1"))
  /\ Cardinality({i \in DOMAIN audit : audit[i] = AuditLine("journal_synced", "d1")}) = 2
  /\ \E b \in RegionsOf(notion, "d1") : b.id = getSyncMap(db, "d1").notion_mirror_block_id

(* ------------------------ the store and its file ----------------------- *)

\* the step ends with the error of a failed file write on its way to the caller
WriteErrorRaised ==
  \/ run'.error = "persist"
  \/ outcome'.kind = "thrown" /\ outcome'.error = "persist" /\ outcome' # outcome
  \/ returned'.call = "resolveConflict" /\ returned'.kind = "thrown"
       /\ returned'.error = "persist"

\* C22: every step in which a state-store call changed the database or its
\* file either leaves the file equal to the whole database or hands the error
\* of the failed write to the caller.
C22_MutatingCallsPersistOrThrow ==
  [][(db' # db \/ disk' # disk) => (disk' = db' \/ WriteErrorRaised)]_vars

\* C22 case: the write of d1's mapping failed, and the next store call (the
\* failed-run record) has put the mapping into the file with it
C22_Witness ==
  /\ pc = "idle"
  /\ outcome.kind = "thrown"
  /\ outcome.error = "persist"
  /\ disk = db
  /\ HasSyncMap(disk, "d1")
  /\ \A i \in DOMAIN audit : audit[i] # AuditLine("journal_synced", "d1")
  /\ \E r \in disk.sync_runs : r.status = "failed" /\ r.summary.error = "persist"

(* ------------------- apply on a file that cannot be written ------------ *)
(* A file write that has failed once in a run (disk full, file read-only)   *)
(* fails again when the catch block writes the failed-run record.           *)

\* the catch block of a run whose item write failed, the file still unwritable
ApplyCatchUnwritable ==
  /\ pc = "catch"
  /\ run.error = "persist"
  /\ faults' = faults
  /\ CatchBranch(TRUE)

NextUnwritable ==
  \/ \E d \in EditableDocs, body \in Contents : SourceEdit(d, body)
  \/ \E b \in Batches : ApplyStart(b, "none")
  \/ ApplyLoad(FALSE)
  \/ \E fault \in {"none", "persist"} : ApplyItem(fault)
  \/ ApplyFinish(FALSE)
  \/ ApplyCatchUnwritable

SpecUnwritable == Init /\ [][NextUnwritable]_vars

\* C23: when a state-store write has failed while apply was processing an
\* item, apply ends by throwing to its caller and the run's record in the
\* file has status failed.
C23_WriteFailureMarksRunFailed ==
  [][(pc = "catch" /\ run.error = "persist" /\ run.idx <= Len(run.plan) /\ pc' = "idle") =>
       /\ outcome'.kind = "thrown"
       /\ outcome'.runId = run.runId
       /\ RunRow(disk', run.runId).status = "failed"]_vars

(* ------- upsertSyncMap in an apply run, a reader, a termination ------- *)
(* Here the file is its content, a sequence of pages: a header page that   *)
(* holds the page count, then one page per sync_runs row and one per       *)
(* sync_map row.  persist() is fs.writeFileSync(dbPath, bytes): the file is *)
(* opened with flag "w", which empties it, and the bytes are then written   *)
(* from offset 0 in one or more write calls.  A reader is StateStore.create *)
(* in another process.                                                      *)

Page(kind, n, row) == [kind |-> kind, n |-> n, row |-> row]

\* the order in which export() lays the rows of a table out
RowOrder == <<"d1", "d2">>

\* db.export(): the database as the content of a file
export(d) ==
  LET runs == SelectSeq(<<1, 2>>, LAMBDA id : \E r \in d.sync_runs : r.run_id = id)
      ids  == SelectSeq(RowOrder, LAMBDA id : HasSyncMap(d, id))
  IN <<Page("header", Len(runs) + Len(ids) + 1, <<>>)>> \o
     [i \in 1..Len(runs) |-> Page("run", 0, <<RunRow(d, runs[i])>>)] \o
     [i \in 1..Len(ids) |-> Page("map", 0, <<getSyncMap(d, ids[i])>>)]

\* the rows on the pages of one kind
RowsOn(bytes, kind) ==
  {bytes[i].row[1] : i \in {j \in 2..Len(bytes) : bytes[j].kind = kind}}

\* new SQL.Database(bytes) followed by the first statement on it: an empty
\* file is a new database; a file whose header does not match its pages is
\* refused (SQLITE_NOTADB, SQLITE_CORRUPT)
Database(bytes) ==
  IF bytes = <<>>
  THEN [ok |-> TRUE, db |-> EmptyDb]
  ELSE IF /\ bytes[1].kind = "header"
          /\ bytes[1].n = Len(bytes)
          /\ \A i \in 2..Len(bytes) : bytes[i].kind \in {"run", "map"}
       THEN [ok |-> TRUE,
             db |-> [EmptyDb EXCEPT !.sync_runs = RowsOn(bytes, "run"),
                                    !.sync_map = RowsOn(bytes, "map")]]
       ELSE [ok |-> FALSE, db |-> EmptyDb]

\* write(fd, chunk) at an offset: pages in place are overwritten, the file
\* grows as needed, a gap reads as zero pages
WriteAt(file, offset, chunk) ==
  [i \in 1..(IF Len(file) > offset + Len(chunk) THEN Len(file) ELSE offset + Len(chunk)) |->
     IF i > offset /\ i <= offset + Len(chunk) THEN chunk[i - offset]
     ELSE IF i <= Len(file) THEN file[i]
     ELSE Page("zero", 0, <<>>)]

\* a mapping as apply builds it, for a journal with the given body
MappingOf(d, body) ==
  NewSyncMap([id |-> d, name |-> d], 1, sha256(body), sha256(body), 1, 1)

\* the databases a store can hold when apply calls upsertSyncMap: the record
\* of the run, written by startRun, and at most one mapping per journal
StoredMaps ==
  {[startRun(EmptyDb, 1, "incremental", 1) EXCEPT
      !.sync_map = {MappingOf(d, "body1") : d \in ds}] : ds \in SUBSET Docs}

\* no store call is in progress
NoWrite == [before |-> EmptyDb, bytes |-> <<>>, offset |-> 0]

InitReader ==
  /\ InitialWorkspace
  /\ audit = <<>> /\ clock = 1 /\ opEdits = 0 /\ faults = 0
  /\ outcome = NoOutcome /\ lastPreview = <<>> /\ returned = NoReturn
  /\ mediaDir = {}
  /\ pc = "items"
  /\ run = NoWrite
  /\ db \in StoredMaps
  /\ disk = export(db)
  /\ input \in {[call |-> "upsertSyncMap", map |-> MappingOf(d, body)] :
                  d \in Docs, body \in Contents}

\* upsertSyncMap, lines 84-112: the statement on the in-memory database
UpsertStatement ==
  /\ pc = "items"
  /\ db' = upsertSyncMap(db, input.map)
  /\ run' = [before |-> db, bytes |-> export(db'), offset |-> 0]
  /\ pc' = "persist"
  /\ returned' = NoReturn
  /\ UNCHANGED <<foundry, notion, disk, audit, clock, opEdits, outcome, lastPreview,
                 faults, mediaDir, input>>

\* writeFileSync opens the file: it is empty from here on
PersistOpen ==
  /\ pc = "persist"
  /\ disk' = <<>>
  /\ pc' = "write"
  /\ returned' = NoReturn
  /\ UNCHANGED <<foundry, notion, db, audit, clock, opEdits, run, outcome, lastPreview,
                 faults, mediaDir, input>>

\* writeFileSync writes the next k pages; after the last one the call returns
PersistWrite(k) ==
  /\ pc = "write"
  /\ k \in 1..(Len(run.bytes) - run.offset)
  /\ disk' = WriteAt(disk, run.offset, SubSeq(run.bytes, run.offset + 1, run.offset + k))
  /\ run' = [run EXCEPT !.offset = @ + k]
  /\ pc' = IF run.offset + k = Len(run.bytes) THEN "returned" ELSE "write"
  /\ returned' = NoReturn
  /\ UNCHANGED <<foundry, notion, db, audit, clock, opEdits, outcome, lastPreview,
                 faults, mediaDir, input>>

\* StateStore.create in another process: readFileSync, new SQL.Database,
\* initialize, persist (that process's database written back to the file)
ReaderCreate ==
  /\ returned.call = "none"
  /\ LET opened == Database(disk)
     IN /\ returned' = [call |-> "create", bytes |-> disk, ok |-> opened.ok,
                        db |-> opened.db]
        /\ disk' = IF opened.ok THEN export(opened.db) ELSE disk
  /\ UNCHANGED <<foundry, notion, db, audit, clock, opEdits, pc, run, outcome,
                 lastPreview, faults, mediaDir, input>>

\* the process is killed (SIGKILL, power loss): no handler runs, the file
\* stays as the last write call left it
Terminate ==
  /\ pc # "terminated"
  /\ pc' = "terminated"
  /\ returned' = NoReturn
  /\ UNCHANGED <<foundry, notion, db, disk, audit, clock, opEdits, run, outcome,
                 lastPreview, faults, mediaDir, input>>

NextReader ==
  \/ UpsertStatement
  \/ PersistOpen
  \/ \E k \in 1..(Cardinality(Docs) + 2) : PersistWrite(k)
  \/ ReaderCreate
  \/ Terminate

SpecReader == InitReader /\ [][NextReader]_vars

\* C24: a reader that opens the state while an upsert of a mapping is in
\* progress reads either the complete file of before the upsert or the
\* complete file of after it.
C24_ReaderSeesBeforeOrAfter ==
  (returned.call = "create" /\ pc \in {"persist", "write"}) =>
     \/ returned.bytes = export(run.before)
     \/ returned.bytes = export(db)

\* the mappings whose upsert has returned: all of the database, or, while an
\* upsert is in progress, those of before it
ReturnedMappings ==
  IF pc \in {"persist", "write"} THEN run.before.sync_map ELSE db.sync_map

\* C25: when the process is terminated during an apply run, the file that is
\* left opens as a database in which the run's record has status running and
\* no end time and in which every mapping whose upsert had returned is
\* present as written (or as the upsert in progress writes it).
C25_TerminatedRunKeepsCommitted ==
  [][(pc # "terminated" /\ pc' = "terminated") =>
       LET after == Database(disk')
       IN /\ after.ok
          /\ \E r \in after.db.sync_runs :
               r.run_id = 1 /\ r.status = "running" /\ r.ended_at = 0
          /\ \A m \in ReturnedMappings :
               m \in after.db.sync_map \/ input.map \in after.db.sync_map]_vars

(* --------------- preview without a configured target database ---------- *)

\* AppConfig.notionDefaultTargetDbId: optional (NOTION_DEFAULT_TARGET_DB_ID)
TargetDatabases == {None, Some("db1")}

\* the bridge constructed with a configuration
InitConfigured ==
  /\ InitialWorkspace
  /\ EmptyStore
  /\ Constructed
  /\ input \in {[call |-> "loadConfig", notionDefaultTargetDbId |-> t] :
                  t \in TargetDatabases}

SpecConfigured == InitConfigured /\ [][NextFresh]_vars

IncludeMediaOptions == {None, Some(TRUE), Some(FALSE)}

InitOptions ==
  /\ InitialWorkspace
  /\ EmptyStore
  /\ Constructed
  /\ input \in {[call |-> "apply", includeMedia |-> o] : o \in IncludeMediaOptions}

SpecOptions == InitOptions /\ [][NextFresh]_vars

\* C27: an apply called with includeMedia false copies no asset for any item
\* (no stored file, no media row, no media failure) and writes a payload with
\* an empty media list marked as without media; called with true or without
\* the option, it copies every asset the journal lists and the payload lists
\* them.
C27_MediaOnlyWhenIncluded ==
  [][(ItemStep /\ CurrentItem.action \in {"create", "update"}) =>
       LET listed == OrElse(run.journalsById[CurrentItem.journalId].media, <<>>)
       IN IF input.includeMedia = Some(FALSE)
          THEN /\ mediaDir' = mediaDir
               /\ db'.media_map = db.media_map
               /\ disk'.media_map = disk.media_map
               /\ run'.error # "media"
               /\ \A b \in NewRegions :
                    b.content # <<>> =>
                      b.content[1].media = <<>> /\ ~b.content[1].includeMedia
          ELSE run'.error = "" =>
                 /\ Cardinality(NewRegions) = 1
                 /\ \A b \in NewRegions :
                      /\ b.content[1].includeMedia
                      /\ Len(b.content[1].media) = Len(listed)
                 /\ Cardinality(db'.media_map) >= Len(listed)
                 /\ Cardinality(mediaDir') >= Len(listed)]_vars

\* C27 case: d2, which lists two assets, has been synced by an apply called
\* with includeMedia false
C27_Witness ==
  /\ input.includeMedia = Some(FALSE)
  /\ HasSyncMap(db, "d2")
  /\ mediaDir = {}
  /\ db.media_map = {}
  /\ \E b \in RegionsOf(notion, "d2") : b.content # <<>> /\ b.content[1].media = <<>>

(* ------------------------- the proxy lifecycle ------------------------- *)
(* A base URL is the text of FOUNDRY_BASE_URL: its scheme ("" when the text *)
(* has none and new URL throws), its host as written, a sequence of tokens  *)
(* ("localhost." is <<"localhost", ".">>, "[::1]" is <<"[", "::1", "]">>),  *)
(* and its port.  Two processes can serve the proxy port: one started by    *)
(* someone else (external) and the child this command spawns.               *)

\* polls of the start loop before foundryAutoProxyStartTimeoutMs has passed
MaxPolls == 2

BaseUrl(scheme, host, port) == [scheme |-> scheme, host |-> host, port |-> port]

BaseUrls ==
  {BaseUrl("http", <<"127.0.0.1">>, "8788"),
   BaseUrl("http", <<"localhost">>, "8788"),
   BaseUrl("http", <<"LOCALHOST">>, "8788"),
   BaseUrl("http", <<"localhost", ".">>, "8788"),
   BaseUrl("http", <<"[", "::1", "]">>, "8788"),
   BaseUrl("http", <<"192.168.1.105">>, "30000"),
   BaseUrl("https", <<"foundry.example.com">>, "443"),
   BaseUrl("", <<"localhost">>, "8788")}

\* new URL(url).hostname: the host in lower case; an IPv6 address keeps its
\* square brackets
hostname(url) == [i \in DOMAIN url.host |-> toLowerCase(url.host[i])]

\* host.replace(/\.$/, "")
WithoutTrailingDot(host) ==
  IF host # <<>> /\ host[Len(host)] = "."
  THEN SubSeq(host, 1, Len(host) - 1)
  ELSE host

\* isLocalProxyBaseUrl: false when new URL throws
isLocalProxyBaseUrl(url) ==
  IF url.scheme = ""
  THEN FALSE
  ELSE LET host == WithoutTrailingDot([i \in DOMAIN hostname(url) |->
                                         toLowerCase(hostname(url)[i])])
       IN host = <<"127.0.0.1">> \/ host = <<"localhost">> \/ host = <<"::1">>

\* probeProxyHealth: what GET /health can answer, given who serves the port;
\* a healthy proxy that does not answer within the timeout counts as
\* unreachable
ProbeResults(procs) ==
  (IF procs.external = "healthy" \/ procs.child = "healthy" THEN {"healthy"} ELSE {}) \cup
  (IF procs.external = "unhealthy" THEN {"unhealthy"} ELSE {}) \cup
  {"unreachable"}

\* noopHandle / the handle of a started child, with its stopped flag
Handle(started, probe) ==
  [call |-> "ensureProxyForSync", kind |-> "returned",
   startedByThisCommand |-> started, stop |-> IF started THEN "owned" ELSE "noop",
   stopped |-> FALSE, probe |-> probe]

Thrown(probe) ==
  [call |-> "ensureProxyForSync", kind |-> "thrown",
   startedByThisCommand |-> FALSE, stop |-> "none", stopped |-> FALSE, probe |-> probe]

\* variant: stop() signals whichever process serves the proxy port
StopTargets_ServingThePort(stop, procs) ==
  {p \in {"external", "child"} : procs[p] \in {"healthy", "unhealthy", "starting"}}

\* the processes a stop function signals: the child of createOwnedStopper
\* while it has not exited, nothing for noopHandle
StopTargets(stop, procs) ==
  IF stop = "owned" /\ procs.child \in {"starting", "healthy"} THEN {"child"} ELSE {}

\* child.kill("SIGTERM"), then SIGKILL if needed
Killed(procs, targets) ==
  [p \in DOMAIN procs |->
     IF p \in targets /\ procs[p] # "none" THEN "killed" ELSE procs[p]]

InitProxy ==
  /\ InitialWorkspace
  /\ EmptyStore
  /\ audit = <<>> /\ clock = 1 /\ opEdits = 0 /\ faults = 0
  /\ outcome = NoOutcome /\ lastPreview = <<>> /\ returned = NoReturn
  /\ pc = "idle"
  /\ input \in {[call |-> "ensureProxyForSync", foundryAutoProxy |-> a,
                 foundryBaseUrl |-> u] : a \in BOOLEAN, u \in BaseUrls}
  /\ \E e \in {"none", "healthy", "unhealthy"} :
       run = [external |-> e, child |-> "none"]

\* the processes that exist
Procs == run

ProxyFrame == UNCHANGED <<foundry, notion, db, disk, audit, opEdits, mediaDir, outcome,
                          lastPreview, faults, input>>

\* ensureProxyForSync up to the first return, throw or spawn (lines 151-180)
EnsureProxyForSync(probe) ==
  /\ pc = "idle"
  /\ returned.call = "none"
  /\ probe \in ProbeResults(Procs)
  /\ clock' = 1
  /\ IF ~input.foundryAutoProxy \/ ~isLocalProxyBaseUrl(input.foundryBaseUrl)
     THEN /\ probe = "unreachable"
          /\ returned' = Handle(FALSE, "none")
          /\ pc' = "returned"
          /\ run' = run
     ELSE CASE probe = "healthy" ->
                 /\ returned' = Handle(FALSE, probe)
                 /\ pc' = "returned"
                 /\ run' = run
            [] probe = "unhealthy" ->
                 /\ returned' = Thrown(probe)
                 /\ pc' = "thrown"
                 /\ run' = run
            [] OTHER ->
                 /\ returned' = [Handle(TRUE, probe) EXCEPT !.kind = "starting"]
                 /\ pc' = "polling"
                 /\ run' = [Procs EXCEPT !.child = "starting"]
  /\ ProxyFrame

\* one round of the start loop (lines 185-212): the child has exited, the
\* probe is healthy, or the loop goes on until the timeout
PollProxy(probe) ==
  /\ pc = "polling"
  /\ probe \in ProbeResults(Procs)
  /\ CASE Procs.child = "exited" ->
            /\ returned' = [Thrown(returned.probe) EXCEPT !.stopped = TRUE]
            /\ pc' = "thrown"
            /\ run' = Killed(Procs, StopTargets("owned", Procs))
            /\ clock' = clock
       [] Procs.child # "exited" /\ probe = "healthy" ->
            /\ returned' = Handle(TRUE, returned.probe)
            /\ pc' = "returned"
            /\ run' = run
            /\ clock' = clock
       [] Procs.child # "exited" /\ probe # "healthy" /\ clock < MaxPolls ->
            /\ returned' = returned
            /\ pc' = pc
            /\ run' = run
            /\ clock' = clock + 1
       [] OTHER ->
            /\ returned' = [Thrown(returned.probe) EXCEPT !.stopped = TRUE]
            /\ pc' = "thrown"
            /\ run' = Killed(Procs, StopTargets("owned", Procs))
            /\ clock' = clock
  /\ ProxyFrame

\* the spawned proxy connects and serves /health
ChildReady ==
  /\ Procs.child = "starting"
  /\ run' = [Procs EXCEPT !.child = "healthy"]
  /\ UNCHANGED <<clock, pc, returned>>
  /\ ProxyFrame

\* the spawned proxy exits on its own
ChildExit ==
  /\ Procs.child \in {"starting", "healthy"}
  /\ run' = [Procs EXCEPT !.child = "exited"]
  /\ UNCHANGED <<clock, pc, returned>>
  /\ ProxyFrame

\* proxy.stop() in the finally block of sync:preview / sync:apply
StopProxy ==
  /\ pc = "returned"
  /\ returned.call = "ensureProxyForSync"
  /\ run' = IF returned.stopped
            THEN run
            ELSE Killed(Procs, StopTargets(returned.stop, Procs))
  /\ returned' = [returned EXCEPT !.stopped = TRUE]
  /\ pc' = "stopped"
  /\ clock' = clock
  /\ ProxyFrame

\* isLocalProxyBaseUrl called on its own
CallIsLocalProxyBaseUrl ==
  /\ pc = "idle"
  /\ returned.call = "none"
  /\ returned' = [call |-> "isLocalProxyBaseUrl", url |-> input.foundryBaseUrl,
                  result |-> isLocalProxyBaseUrl(input.foundryBaseUrl)]
  /\ UNCHANGED <<clock, pc, run>>
  /\ ProxyFrame

NextProxy ==
  \/ \E probe \in {"healthy", "unhealthy", "unreachable"} : EnsureProxyForSync(probe)
  \/ \E probe \in {"healthy", "unhealthy", "unreachable"} : PollProxy(probe)
  \/ ChildReady
  \/ ChildExit
  \/ StopProxy
  \/ CallIsLocalProxyBaseUrl

SpecProxy == InitProxy /\ [][NextProxy]_vars

\* C28: no step of ensureProxyForSync or of the handle's stop() touches a
\* process this call did not start; with auto-proxy disabled, a base URL that
\* is not local, or a healthy first probe, the handle is not owned and no
\* process has been spawned, so that stop() kills nothing; a process is only
\* ever killed through a stop function that owns it.
C28_StopKillsOnlyOwnProxy ==
  /\ [][Procs'.external = Procs.external]_vars
  /\ [][(Procs'.child = "killed" /\ Procs.child # "killed") =>
          (returned.stop = "owned" /\ Procs.child \in {"starting", "healthy"})]_vars
  /\ [](returned.call = "ensureProxyForSync" =>
          /\ (\/ ~input.foundryAutoProxy
              \/ ~isLocalProxyBaseUrl(input.foundryBaseUrl)
              \/ returned.probe = "healthy") =>
               /\ returned.kind = "returned"
               /\ ~returned.startedByThisCommand
               /\ Procs.child = "none"
          /\ ~returned.startedByThisCommand => Procs.child \in {"none", "exited", "killed"})

\* C28 case: a healthy proxy started by someone else answered the probe, the
\* command has called stop(), and that proxy is still serving
C28_Witness ==
  /\ pc = "stopped"
  /\ returned.call = "ensureProxyForSync"
  /\ returned.stopped
  /\ ~returned.startedByThisCommand
  /\ returned.probe = "healthy"
  /\ input.foundryAutoProxy
  /\ Procs.external = "healthy"
  /\ Procs.child = "none"

\* the host a base URL names: the address between the brackets of an IPv6
\* literal, otherwise the name or address, in lower case
HostNamed(url) ==
  IF url.host[1] = "[" THEN url.host[2] ELSE toLowerCase(url.host[1])

\* C29: isLocalProxyBaseUrl returns true exactly for the URLs that parse and
\* whose host is 127.0.0.1, localhost or ::1.
C29_LocalExactlyForLoopbackHosts ==
  returned.call = "isLocalProxyBaseUrl" =>
    (returned.result <=>
       /\ returned.url.scheme # ""
       /\ HostNamed(returned.url) \in {"127.0.0.1", "localhost", "::1"})

(* --------------------- the Foundry module's handler -------------------- *)
(* settings = [readEnabled, bridgeToken] are the world settings of the      *)
(* module, payload = [token, action, journalId] a request from the socket;  *)
(* a field the sender left out is None.  A reply carries ok, error, data    *)
(* and the game collections the handler read to build it.                   *)

BridgeTokens == {"", "t1"}

PayloadTokens == {None, Some(""), Some("t1"), Some("t2")}

BridgeActions == {"health", "list_journals", "list_folders", "get_journal",
                  "journal_media", "delete_journal"}

JournalIds == Docs \cup {"d9"}

Reply(ok, error, data, read) == [ok |-> ok, error |-> error, data |-> data, read |-> read]

\* variant: only the comparison of the two tokens, without the test for an
\* unset token
tokenAccepted_WithoutEmptyTest(settings, payload) ==
  payload.token = Some(settings.bridgeToken)

\* the negation of (!token || payload?.token !== token)
tokenAccepted(settings, payload) ==
  /\ settings.bridgeToken # ""
  /\ payload.token = Some(settings.bridgeToken)

\* handle(payload), lines 109-207, on the journals of the world
handle(settings, payload, journals) ==
  IF ~settings.readEnabled
  THEN Reply(FALSE, "Read bridge is disabled.", None, {})
  ELSE IF ~tokenAccepted(settings, payload)
  THEN Reply(FALSE, "Unauthorized", None, {})
  ELSE CASE payload.action = "health" ->
              Reply(TRUE, "", Some(<<"health">>), {"world"})
         [] payload.action = "list_journals" ->
              Reply(TRUE, "", Some(<<"journals", DOMAIN journals>>), {"journal"})
         [] payload.action = "list_folders" ->
              Reply(TRUE, "", Some(<<"folders", {}>>), {"folders"})
         [] payload.action = "get_journal" ->
              IF payload.journalId \in DOMAIN journals
              THEN Reply(TRUE, "", Some(<<"journal", journals[payload.journalId].content,
                                          journals[payload.journalId].media>>), {"journal"})
              ELSE Reply(FALSE, "Journal not found", None, {"journal"})
         [] payload.action = "journal_media" ->
              IF payload.journalId \in DOMAIN journals
              THEN Reply(TRUE, "", Some(<<"media", journals[payload.journalId].media>>),
                         {"journal"})
              ELSE Reply(FALSE, "Journal not found", None, {"journal"})
         [] OTHER ->
              Reply(FALSE, "Unknown action", None, {})

InitBridge ==
  /\ InitialWorkspace
  /\ EmptyStore
  /\ Constructed
  /\ input \in {[call |-> "handle",
                 settings |-> [readEnabled |-> e, bridgeToken |-> t],
                 payload |-> [token |-> p, action |-> a, journalId |-> j]] :
                  e \in BOOLEAN, t \in BridgeTokens, p \in PayloadTokens,
                  a \in BridgeActions, j \in JournalIds}

\* a payload arrives on the socket and the reply is sent
HandlePayload ==
  /\ returned.call = "none"
  /\ returned' = [call |-> "handle",
                  reply |-> handle(input.settings, input.payload, foundry)]
  /\ UNCHANGED <<foundry, notion, db, disk, audit, clock, opEdits, pc, run, outcome,
                 lastPreview, faults, mediaDir, input>>

SpecBridge == InitBridge /\ [][HandlePayload]_vars

\* the request is one the module may answer
ReadAllowed ==
  /\ input.settings.readEnabled
  /\ input.settings.bridgeToken # ""
  /\ input.payload.token = Some(input.settings.bridgeToken)

\* C30: the handler replies with data only when reading is enabled and the
\* payload's token equals a configured token that is not empty; otherwise the
\* reply is ok:false, carries no data, and nothing of the game was read.
C30_HandlerIsAuthenticated ==
  returned.call = "handle" =>
    /\ returned.reply.data # None => (returned.reply.ok /\ ReadAllowed)
    /\ ~ReadAllowed =>
         /\ ~returned.reply.ok
         /\ returned.reply.data = None
         /\ returned.reply.read = {}
    /\ returned.reply.ok => returned.reply.data # None

\* C30 case: no token is configured and the request carries an empty token
\* for a journal that exists: refused
C30_Witness ==
  /\ returned.call = "handle"
  /\ input.settings.readEnabled
  /\ input.settings.bridgeToken = ""
  /\ input.payload.token = Some("")
  /\ input.payload.action = "get_journal"
  /\ input.payload.journalId = "d1"
  /\ returned.reply = Reply(FALSE, "Unauthorized", None, {})

(* ------------------ the item loop, one await at a time ----------------- *)
(* apply's loop body for a create/update item is a chain of awaited calls:  *)
(* the destination write (ensureJournalPage, the media copies, then         *)
(* upsertFoundryMirror), the mapping write, the audit event.  Here the      *)
(* request and its completion are two steps, and run.pending holds the      *)
(* journals whose destination write has been sent and has not settled.      *)

\* options.journalIds of the apply call whose loop is followed
LoopBatches == Batches \cup {<<"d2">>, <<"d2", "d1">>}

\* variant: the call is started and the loop goes on without waiting for it
settled_Detached(pending, d) == TRUE

\* await: the statement after an awaited call runs once the call has settled
settled(pending, d) == d \notin pending

\* apply has called startRun, preview and loadJournals and enters the loop
InitLoop ==
  /\ InitialWorkspace
  /\ mediaDir = {}
  /\ db = startRun(EmptyDb, 1, "incremental", 1)
  /\ disk = db
  /\ audit = <<>>
  /\ clock = 1
  /\ opEdits = 0
  /\ outcome = NoOutcome
  /\ lastPreview = <<>>
  /\ faults = 0
  /\ returned = NoReturn
  /\ input \in {[call |-> "apply", includeMedia |-> o] : o \in IncludeMediaOptions}
  /\ pc = "items"
  /\ \E b \in LoopBatches :
       run = [runId |-> 1, batch |-> b,
              plan |-> preview(foundry, notion, db, b, <<>>).items,
              journalsById |-> [d \in SeqToSet(b) |-> GetJournal(foundry, d)],
              idx |-> 1, items |-> <<>>, written |-> <<>>, error |-> "",
              stage |-> "start", pending |-> {}, result |-> <<>>]

\* lines 127-141: the destination write of the current item is sent
SendUpsert ==
  /\ pc = "items"
  /\ run.idx <= Len(run.plan)
  /\ run.stage = "start"
  /\ CurrentItem.action \in {"create", "update"}
  /\ LET item    == CurrentItem
         journal == run.journalsById[item.journalId]
     IN run' = [run EXCEPT
                  !.stage   = "sent",
                  !.pending = @ \cup {item.journalId},
                  !.result  = <<ApplySync(notion, db, disk, mediaDir, item, journal,
                                          "none", clock)>>]
  /\ clock' = clock + 1
  /\ UNCHANGED <<foundry, notion, db, disk, audit, opEdits, pc, outcome, lastPreview,
                 faults, mediaDir, input>>
  /\ returned' = NoReturn

\* the destination write of journal d settles: the page, the region, and the
\* media rows and files that were copied for it are there
SettleUpsert(d) ==
  /\ pc = "items"
  /\ d \in run.pending
  /\ run.result # <<>>
  /\ notion' = run.result[1].notion
  /\ mediaDir' = run.result[1].dir
  /\ db' = run.result[1].file
  /\ disk' = run.result[1].file
  /\ run' = [run EXCEPT !.pending = @ \ {d}]
  /\ UNCHANGED <<foundry, audit, clock, opEdits, pc, outcome, lastPreview, faults, input>>
  /\ returned' = NoReturn

\* lines 143-155: the mapping is built from the upsert's result and stored
WriteMapping ==
  /\ pc = "items"
  /\ run.idx <= Len(run.plan)
  /\ run.stage = "sent"
  /\ settled(run.pending, CurrentItem.journalId)
  /\ db' = upsertSyncMap(db, getSyncMap(run.result[1].db, CurrentItem.journalId))
  /\ disk' = persist(disk, db', FALSE)
  /\ run' = [run EXCEPT !.stage = "mapped"]
  /\ UNCHANGED <<foundry, notion, audit, clock, opEdits, pc, outcome, lastPreview,
                 faults, mediaDir, input>>
  /\ returned' = NoReturn

\* lines 157-165: the audit event, items.push, and on to the next item
WriteAudit ==
  /\ pc = "items"
  /\ run.idx <= Len(run.plan)
  /\ run.stage = "mapped"
  /\ audit' = Append(audit, AuditLine("journal_synced", CurrentItem.journalId))
  /\ run' = [run EXCEPT !.stage = "start", !.idx = @ + 1,
                        !.items = Append(@, CurrentItem), !.result = <<>>]
  /\ UNCHANGED <<foundry, notion, db, disk, clock, opEdits, pc, outcome, lastPreview,
                 faults, mediaDir, input>>
  /\ returned' = NoReturn

NextLoop ==
  \/ \E d \in EditableDocs, body \in Contents : SourceEdit(d, body)
  \/ SendUpsert
  \/ \E d \in Docs : SettleUpsert(d)
  \/ WriteMapping
  \/ WriteAudit
  \/ ApplyFinish(FALSE)

SpecLoop == InitLoop /\ [][NextLoop]_vars

\* C31: in an apply run at most one document's destination write is in
\* flight, and the destination write of an item is sent only when nothing is
\* in flight and every item before it in preview order has its region on the
\* destination, its mapping in the state file and its audit record, in order.
C31_ItemsStrictlySequential ==
  /\ [](pc = "items" => Cardinality(run.pending) <= 1)
  /\ [][(pc = "items" /\ pc' = "items" /\ run'.pending # run.pending
           /\ run'.pending # {}) =>
          /\ run.pending = {}
          /\ run'.pending = {CurrentItem.journalId}
          /\ Len(audit) = run.idx - 1
          /\ \A j \in 1..(run.idx - 1) :
               /\ audit[j] = AuditLine("journal_synced", run.plan[j].journalId)
               /\ HasSyncMap(disk, run.plan[j].journalId)
               /\ RegionsOf(notion, run.plan[j].journalId) # {}]_vars

\* C31 case: the destination write of the second item of a batch is in
\* flight, after the first item's region, mapping and audit record
C31_Witness ==
  /\ pc = "items"
  /\ Len(run.plan) = 2
  /\ run.idx = 2
  /\ run.pending = {run.plan[2].journalId}
  /\ Len(audit) = 1
  /\ HasSyncMap(disk, run.plan[1].journalId)

(* ----------------------------- the audit trail ------------------------- *)

\* C32: audit.log only grows at its end; an item of apply that inserted a
\* conflict or upserted a mapping either appends exactly one record, with
\* event conflict_created resp. journal_synced and the document's id, in the
\* same iteration, or ends the loop in the catch branch (apply throws); no
\* other step of apply appends; and when apply returns, the last records of
\* the log are those of the run's items, one each, in item order.
C32_AuditAppendOnlyAndComplete ==
  /\ [][IsPrefix(audit, audit')]_vars
  /\ [][ItemStep =>
          LET d             == CurrentItem.journalId
              wroteConflict == db'.sync_conflicts # db.sync_conflicts
              wroteMap      == db'.sync_map # db.sync_map
          IN /\ (wroteConflict /\ pc' = "items") =>
                  audit' = Append(audit, [event |-> "conflict_created", journalId |-> d])
             /\ (wroteMap /\ pc' = "items") =>
                  audit' = Append(audit, [event |-> "journal_synced", journalId |-> d])
             /\ (~wroteConflict /\ ~wroteMap) => audit' = audit
             /\ pc' # "items" => (pc' = "catch" /\ audit' = audit)]_vars
  /\ [][(pc # "items" \/ run.idx > Len(run.plan)) => audit' = audit]_vars
  /\ [][(pc = "items" /\ pc' = "idle" /\ outcome'.kind = "returned") =>
          /\ Len(audit) >= Len(run.items)
          /\ \A i \in DOMAIN run.items :
               audit[Len(audit) - Len(run.items) + i] =
                 [event     |-> IF run.items[i].action = "conflict"
                                THEN "conflict_created" ELSE "journal_synced",
                  journalId |-> run.items[i].journalId]]_vars

\* C32 case: an apply has returned after an item that recorded a conflict
\* and one that wrote a mapping, and the log holds a record for each
C32_Witness ==
  /\ outcome.kind = "returned"
  /\ pc = "idle"
  /\ \E i, j \in DOMAIN audit :
       /\ i < j
       /\ audit[i].event = "journal_synced"
       /\ audit[j].event = "conflict_created"
       /\ audit[i].journalId = audit[j].journalId

(* --------------------- the engine's own destination write -------------- *)

\* C33: between apply calls, as long as nobody but the bridge has edited a
\* destination page and no run has failed in a destination call, preview
\* reports every mapped document as an update, whatever body the source
\* holds for it: no completed write of the bridge is later than the last
\* sync its mapping records.
C33_OwnWriteIsNotADestinationEdit ==
  (/\ pc = "idle"
   /\ opEdits = 0
   /\ \A r \in db.sync_runs : r.summary.error # "notion") =>
     \A d \in Docs :
        HasSyncMap(db, d) =>
          \A c \in Contents :
             PreviewItem([foundry EXCEPT ![d].content = c], notion, db, d).item.action
               = "update"

\* C33 case: d1 was synced with its first body, the source has changed it,
\* nobody has edited the page, and preview reports an update
C33_Witness ==
  /\ pc = "idle"
  /\ opEdits = 0
  /\ HasSyncMap(db, "d1")
  /\ getSyncMap(db, "d1").source_hash # hashJournal(GetJournal(foundry, "d1"))
  /\ lastPreview # <<>>
  /\ lastPreview[1].journalId = "d1"
  /\ lastPreview[1].action = "update"

(* --------------- the fingerprint and the payload of one item ----------- *)

\* the versions of journal d the source can have served during a run
VersionsOf(d) == {GetJournal([foundry EXCEPT ![d].content = c], d) : c \in Contents}

\* C34: when apply has written a region and a mapping for a document, the
\* mapping's source fingerprint is the fingerprint of the version of the
\* document whose body is in the region's payload.
C34_FingerprintOfPayloadVersion ==
  [][(ItemStep /\ CurrentItem.action \in {"create", "update"} /\ run'.error = "") =>
       LET d   == CurrentItem.journalId
           map == getSyncMap(db', d)
       IN \E j \in VersionsOf(d) :
            /\ map.source_hash = hashJournal(j)
            /\ \A b \in NewRegions :
                 b.content[1].contentText = htmlToReadableText(j.content)]_vars

(* ----------------------- one destination per source ------------------- *)

\* C35: two mappings of different source documents never reference the same
\* destination page.
C35_MappingsReferenceDistinctPages ==
  \A m1, m2 \in db.sync_map :
     m1.foundry_id # m2.foundry_id => m1.notion_page_id # m2.notion_page_id

(* -------------------- two stores on one state file --------------------- *)
(* Every process builds its own StateStore with createAppContext: the MCP   *)
(* server once, when it starts, each CLI command when it runs.  db is the   *)
(* in-memory database of the long-lived instance, run.db that of a second   *)
(* instance while one is open, disk the file both write.  returned.written  *)
(* holds the keys of the rows whose store call has returned.                *)

\* the mutating calls the instances make
StoreCalls ==
  {[call |-> "upsertSyncMap", row |-> MappingOf(d, body)] : d \in Docs, body \in Contents}
    \cup {[call |-> "insertConflict", row |-> StoredConflict(1, 2, FALSE)]}
    \cup {[call |-> "startRun", row |-> RunRow(startRun(EmptyDb, 1, "incremental", 1), 1)]}

\* table and primary key of the row a call writes
KeyOf(c) ==
  CASE c.call = "upsertSyncMap"  -> <<"sync_map", c.row.foundry_id>>
    [] c.call = "insertConflict" -> <<"sync_conflicts", c.row.conflict_id>>
    [] c.call = "startRun"       -> <<"sync_runs", c.row.run_id>>

\* the statement of a call on an in-memory database
Statement(d, c) ==
  CASE c.call = "upsertSyncMap"  -> upsertSyncMap(d, c.row)
    [] c.call = "insertConflict" -> insertConflict(d, c.row)
    [] c.call = "startRun"       -> startRun(d, c.row.run_id, c.row.mode, c.row.started_at)

\* the primary key lets the INSERT of startRun through
Accepts(d, c) == c.call = "startRun" => \A r \in d.sync_runs : r.run_id # c.row.run_id

\* the long-lived instance has been created on an empty data directory
InitInstances ==
  /\ InitialWorkspace
  /\ EmptyStore
  /\ audit = <<>> /\ clock = 1 /\ opEdits = 0 /\ faults = 0
  /\ outcome = NoOutcome /\ lastPreview = <<>>
  /\ pc = "idle"
  /\ input = NoInput
  /\ run = [open |-> FALSE, db |-> EmptyDb]
  /\ returned = [call |-> "store", written |-> {}]

\* StateStore.create in another process: the file is read into a new
\* in-memory database, the tables are ensured, the database is written back
CreateSecond ==
  /\ ~run.open
  /\ run' = [open |-> TRUE, db |-> disk]
  /\ disk' = persist(disk, disk, FALSE)
  /\ UNCHANGED <<foundry, notion, db, audit, clock, opEdits, pc, outcome, lastPreview,
                 faults, mediaDir, returned, input>>

\* the other process exits
ExitSecond ==
  /\ run.open
  /\ run' = [open |-> FALSE, db |-> EmptyDb]
  /\ UNCHANGED <<foundry, notion, db, disk, audit, clock, opEdits, pc, outcome,
                 lastPreview, faults, mediaDir, returned, input>>

\* a mutating call on the long-lived instance: statement, then persist()
CallFirst(c) ==
  /\ Accepts(db, c)
  /\ db' = Statement(db, c)
  /\ disk' = persist(disk, db', FALSE)
  /\ returned' = [returned EXCEPT !.written = @ \cup {KeyOf(c)}]
  /\ UNCHANGED <<foundry, notion, audit, clock, opEdits, pc, run, outcome, lastPreview,
                 faults, mediaDir, input>>

\* a mutating call on the second instance
CallSecond(c) ==
  /\ run.open
  /\ Accepts(run.db, c)
  /\ run' = [run EXCEPT !.db = Statement(@, c)]
  /\ disk' = persist(disk, run'.db, FALSE)
  /\ returned' = [returned EXCEPT !.written = @ \cup {KeyOf(c)}]
  /\ UNCHANGED <<foundry, notion, db, audit, clock, opEdits, pc, outcome, lastPreview,
                 faults, mediaDir, input>>

NextInstances ==
  \/ CreateSecond
  \/ ExitSecond
  \/ \E c \in StoreCalls : CallFirst(c)
  \/ \E c \in StoreCalls : CallSecond(c)

SpecInstances == InitInstances /\ [][NextInstances]_vars

\* the file holds a row with the key
Stored(file, key) ==
  \E r \in file[key[1]] :
     key[2] = CASE key[1] = "sync_map"       -> r.foundry_id
                [] key[1] = "sync_conflicts" -> r.conflict_id
                [] key[1] = "sync_runs"      -> r.run_id

\* C36: a row whose store call has returned stays in the state file, whichever
\* instance writes to the file afterwards.
C36_NoLostWriteAcrossInstances ==
  \A key \in returned.written : Stored(disk, key)

(* ------------------- what resolveConflict leaves alone ----------------- *)

\* C37: a resolveConflict call gives the addressed conflict the status
\* resolved and the notes "[resolution] notes" and changes nothing else: no
\* mapping, no other conflict, no media or run record, nothing in the source,
\* the destination, the media directory or the audit log; the file holds the
\* database with that change when the call returns true and is untouched
\* otherwise; and preview classifies every document after the call as it
\* did before.
C37_ResolveChangesOnlyTheConflict ==
  [][ResolveStep =>
       LET c == returned'.conflictId IN
       /\ UNCHANGED <<foundry, notion, audit, mediaDir>>
       /\ returned'.notes \in {<<r, "notes">> : r \in Resolutions}
       /\ db'.sync_map = db.sync_map
       /\ db'.media_map = db.media_map
       /\ db'.sync_runs = db.sync_runs
       /\ db'.sync_conflicts =
            {IF r.conflict_id = c
             THEN [r EXCEPT !.status = "resolved", !.operator_notes = returned'.notes]
             ELSE r : r \in db.sync_conflicts}
       /\ disk' = IF returned'.kind = "returned" /\ returned'.ok THEN db' ELSE disk
       /\ \A d \in Docs :
            PreviewItem(foundry', notion', db', d).item
              = PreviewItem(foundry, notion, db, d).item]_vars

\* C37 case: the conflict recorded for d1 has been resolved by a call that
\* returned true, and preview still classifies d1 as a conflict
C37_Witness ==
  /\ returned.call = "resolveConflict"
  /\ returned.kind = "returned"
  /\ returned.ok
  /\ \E r \in db.sync_conflicts :
       /\ r.conflict_id = returned.conflictId
       /\ r.foundry_id = "d1"
       /\ r.status = "resolved"
  /\ PreviewItem(foundry, notion, db, "d1").item.action = "conflict"

(* ------------------- repeated runs on a conflicting page --------------- *)

\* the bridge after one run (identifier 9) has synced d1 with its first body
\* to the page an operator wrote, the source has changed the body, and an
\* operator has then edited the page
InitConflicts ==
  /\ input = NoInput
  /\ \E k \in InitialPageLengths :
       LET n0      == [pages |-> <<[title |-> "d1", last_edited_time |-> 1,
                                    preamble |-> k, children |-> <<>>]>>,
                       nextBlock |-> k + 1]
           f0      == [d \in Docs |-> SourceJournal(d, "body1", SourceMedia(d))]
           started == startRun(EmptyDb, 9, "incremental", 1)
           item    == PreviewItem(f0, n0, started, "d1").item
           synced  == ApplySync(n0, started, started, {}, item, GetJournal(f0, "d1"),
                                "none", 1)
           done    == finishRun(synced.db, 9, "success", 2, summarize(<<item>>))
       IN /\ foundry = [d \in Docs |->
                          SourceJournal(d, IF d = "d1" THEN "body2" ELSE "body1",
                                        SourceMedia(d))]
          /\ notion = AppendChildren(synced.notion, 1,
                                     Paragraphs(synced.notion.nextBlock, 1, "operator"), 3)
          /\ db = done
          /\ disk = done
          /\ mediaDir = synced.dir
  /\ audit = <<AuditLine("journal_synced", "d1")>>
  /\ clock = 3
  /\ opEdits = 1
  /\ pc = "idle"
  /\ run = NoRun
  /\ outcome = [kind |-> "returned", error |-> "", runId |-> 9]
  /\ lastPreview = <<>>
  /\ faults = 0
  /\ returned = NoReturn

NextConflicts ==
  \/ NextFresh
  \/ \E c \in 1..(Cardinality(db.sync_conflicts) + 1), r \in Resolutions, w \in BOOLEAN :
       ResolveConflict(c, r, w)

SpecConflicts == InitConflicts /\ [][NextConflicts]_vars

\* the conflict records stored for a source document
ConflictsOf(d, journalId) == {r \in d.sync_conflicts : r.foundry_id = journalId}

\* C38: an item of apply classified conflict that gets through inserts one
\* conflict record, open, for the item's document, under an identifier no
\* record had, and leaves every record there was as it was, resolved or not;
\* so a document has at least as many conflict records as conflict_created
\* events were logged for it.
C38_EveryConflictRunAddsARecord ==
  /\ [][(ItemStep /\ CurrentItem.action = "conflict") =>
          LET d == CurrentItem.journalId IN
          /\ db.sync_conflicts \subseteq db'.sync_conflicts
          /\ pc' = "items" => db'.sync_conflicts # db.sync_conflicts
          /\ db'.sync_conflicts # db.sync_conflicts =>
               /\ Cardinality(ConflictsOf(db', d)) = Cardinality(ConflictsOf(db, d)) + 1
               /\ \A r \in db'.sync_conflicts \ db.sync_conflicts :
                    /\ r.foundry_id = d
                    /\ r.status = "open"
                    /\ r.conflict_id \notin ConflictIds(db)]_vars
  /\ [](\A d \in Docs :
          Cardinality(ConflictsOf(db, d)) >=
            Cardinality({i \in DOMAIN audit : audit[i] = [event |-> "conflict_created",
                                                          journalId |-> d]}))

\* C38 case: two runs have each recorded a conflict for d1, the first of
\* which was resolved before the second run
C38_Witness ==
  /\ Cardinality(ConflictsOf(db, "d1")) = 2
  /\ \E r \in db.sync_conflicts : r.status = "resolved"
  /\ \E r \in db.sync_conflicts : r.status = "open"
  /\ Cardinality({i \in DOMAIN audit : audit[i].event = "conflict_created"}) = 2

(* ------------------ the socket proxy's callModuleAction ---------------- *)
(* run[r] is the promise of request r and its closure: state, the timer,    *)
(* the two listeners (registered and removed together), how often resolve   *)
(* or reject was called, by what, and the response handed to finalize.      *)
(* returned.wire holds the messages in flight on the Foundry socket: copies *)
(* of a request on their way to the module, acknowledgements on their way   *)
(* to the emit that asked for one, replies the module broadcast.  input     *)
(* holds the proxy's FOUNDRY_BRIDGE_TOKEN and whether the socket is         *)
(* connected.                                                               *)

\* requestId = randomUUID() of the requests in flight together
RequestIds == {"r1", "r2"}

\* the module action each request asks for
ActionOf(r) == IF r = "r1" THEN "health" ELSE "list_journals"

\* the routes a request copy takes: the custom event, the "message" envelope
Vias == {"event", "message"}

\* the forms in which the module broadcasts a reply: the custom event, the
\* object envelope, the positional envelope
Shapes == {"event", "object", "positional"}

\* the world settings of the module that answers
ModuleSettings == [readEnabled |-> TRUE, bridgeToken |-> "t1"]

NewRequest == [state |-> "new", timer |-> FALSE, listeners |-> FALSE, settles |-> 0,
               by |-> "none", response |-> <<>>]

\* requestPayload and the copy of it emitted on one route
RequestCopy(r, via) ==
  [kind |-> "request", requestId |-> r, via |-> via,
   payload |-> [token |-> input.token, action |-> ActionOf(r), journalId |-> None]]

\* variant: a reply is taken whatever requestId it carries
matches_AnyReply(message, requestId) == message.kind = "reply"

\* message.__mmBridgeResponse && message.requestId === requestId
matches(message, requestId) == message.kind = "reply" /\ message.requestId = requestId

\* finalize(response): once only; clears the timer, removes the listeners,
\* rejects or resolves
finalize(req, response, by) ==
  IF req.state = "settled"
  THEN req
  ELSE [state |-> "settled", timer |-> FALSE, listeners |-> FALSE,
        settles |-> req.settles + 1, by |-> by, response |-> <<response>>]

InitSocket ==
  /\ InitialWorkspace
  /\ EmptyStore
  /\ audit = <<>> /\ clock = 1 /\ opEdits = 0 /\ faults = 0
  /\ outcome = NoOutcome /\ lastPreview = <<>>
  /\ pc = "idle"
  /\ run = [r \in RequestIds |-> NewRequest]
  /\ returned = [call |-> "socket", wire |-> {}]
  /\ input \in {[call |-> "callModuleAction", token |-> t, connected |-> c] :
                  t \in {Some("t1"), Some("t2")}, c \in BOOLEAN}

SocketFrame ==
  UNCHANGED <<foundry, notion, db, disk, audit, clock, opEdits, pc, outcome, lastPreview,
              faults, mediaDir, input>>

\* callModuleAction, lines 188-299: throws when the socket is not connected;
\* otherwise arms the timer, registers the listeners and emits the copies
CallModuleAction(r) ==
  /\ run[r].state = "new"
  /\ IF input.connected
     THEN /\ run' = [run EXCEPT ![r] = [NewRequest EXCEPT !.state = "pending",
                                                          !.timer = TRUE,
                                                          !.listeners = TRUE]]
          /\ returned' = [returned EXCEPT
                            !.wire = @ \cup {RequestCopy(r, via) : via \in Vias}]
     ELSE /\ run' = [run EXCEPT ![r] = [NewRequest EXCEPT !.state = "settled",
                                                          !.settles = 1,
                                                          !.by = "throw"]]
          /\ returned' = returned
  /\ SocketFrame

\* the module's onPayload for one copy of a request: respond(reply) and the
\* three broadcasts of the reply
OnPayload(m) ==
  /\ m \in returned.wire
  /\ m.kind = "request"
  /\ LET reply == handle(ModuleSettings, m.payload, foundry)
     IN returned' = [returned EXCEPT
          !.wire = (@ \ {m})
                     \cup {[kind |-> "ack", requestId |-> m.requestId, via |-> m.via,
                            reply |-> reply]}
                     \cup {[kind |-> "reply", requestId |-> m.requestId, shape |-> s,
                            reply |-> reply] : s \in Shapes}]
  /\ run' = run
  /\ SocketFrame

\* the acknowledgement callback of one emit runs
DeliverAck(m) ==
  /\ m \in returned.wire
  /\ m.kind = "ack"
  /\ run' = [run EXCEPT ![m.requestId] = finalize(@, m.reply, "ack")]
  /\ returned' = [returned EXCEPT !.wire = @ \ {m}]
  /\ SocketFrame

\* a broadcast of the module arrives: every registered listener sees it
DeliverReply(m) ==
  /\ m \in returned.wire
  /\ m.kind = "reply"
  /\ run' = [r \in RequestIds |->
               IF run[r].listeners /\ matches(m, r)
               THEN finalize(run[r], m.reply, "reply")
               ELSE run[r]]
  /\ returned' = [returned EXCEPT !.wire = @ \ {m}]
  /\ SocketFrame

\* REQUEST_TIMEOUT_MS pass: the timer callback removes the listeners and rejects
RequestTimeout(r) ==
  /\ run[r].timer
  /\ run' = [run EXCEPT ![r] = [@ EXCEPT !.state = "settled", !.timer = FALSE,
                                         !.listeners = FALSE, !.settles = @ + 1,
                                         !.by = "timeout"]]
  /\ returned' = returned
  /\ SocketFrame

NextSocket ==
  \/ \E r \in RequestIds : CallModuleAction(r)
  \/ \E m \in returned.wire : OnPayload(m)
  \/ \E m \in returned.wire : DeliverAck(m)
  \/ \E m \in returned.wire : DeliverReply(m)
  \/ \E r \in RequestIds : RequestTimeout(r)

SpecSocket == InitSocket /\ [][NextSocket]_vars

\* setTimeout: an armed timer that is not cleared fires
SpecSocketFair == SpecSocket /\ \A r \in RequestIds : WF_vars(RequestTimeout(r))

\* what the module replies to request r
ReplyTo(r) == handle(ModuleSettings, RequestCopy(r, "event").payload, foundry)

\* C39: the promise of a request is resolved or rejected at most once; once
\* settled it is as it stays, whatever arrives later; when it settles its
\* timer is cleared and its listeners are removed; the response it settles
\* with is the module's reply to this very request; and every request that
\* was sent does settle.
C39_RequestSettlesOnceWithItsOwnReply ==
  /\ [](\A r \in RequestIds : run[r].settles <= 1)
  /\ [][\A r \in RequestIds :
          /\ run[r].state = "settled" => run'[r] = run[r]
          /\ run'[r].state = "settled" =>
               /\ run'[r].settles = 1
               /\ ~run'[r].timer
               /\ ~run'[r].listeners
               /\ run'[r].by \in {"ack", "reply"} => run'[r].response = <<ReplyTo(r)>>
               /\ run'[r].by \in {"timeout", "throw"} => run'[r].response = <<>>]_vars
  /\ \A r \in RequestIds : (run[r].state = "pending") ~> (run[r].state = "settled")

\* C39 case: two requests were in flight together; each was settled by a
\* reply, and a reply to the other request is still in flight
C39_Witness ==
  /\ \A r \in RequestIds : run[r].state = "settled" /\ run[r].by = "reply"
  /\ \E m \in returned.wire : m.kind = "reply"
  /\ \E m \in returned.wire : m.kind = "ack"

(* ------------------- the owned stopper, signal by signal --------------- *)
(* The start loop and stopOwnedProxy with the signals one at a time: audit  *)
(* is the log of what happened to the child, "stop" for a call of the stop  *)
(* function, "SIGTERM" and "SIGKILL" for child.kill.  A child that got      *)
(* SIGTERM exits within waitForExit's five seconds (ChildExit) or does not. *)

\* calls of stop() the command makes
MaxStops == 2

\* the signals sent to the child so far
SignalsSent == SelectSeq(audit, LAMBDA e : e # "stop")

StopCalls == Len(SelectSeq(audit, LAMBDA e : e = "stop"))

\* variant: stopOwnedProxy gives up after SIGTERM
Escalates_Never(child) == FALSE

\* lines 319-320: !exitedAfterTerm && child.exitCode === null && child.signalCode === null
Escalates(child) == child \notin {"none", "exited", "killed"}

\* the head of stopOwnedProxy (lines 311-318): nothing when stopped is set;
\* otherwise the flag is set and a child that has not exited gets SIGTERM.
\* waiting: the position of the caller while waitForExit is pending,
\* done: its position when stop() has returned
StopOwnedProxy(waiting, done) ==
  IF returned.stopped
  THEN /\ audit' = Append(audit, "stop")
       /\ pc' = IF pc \in {"termThrow", "termStop"} THEN pc ELSE done
       /\ returned' = returned
  ELSE /\ returned' = [returned EXCEPT !.stopped = TRUE]
       /\ IF StopTargets("owned", Procs) # {}
          THEN /\ audit' = audit \o <<"stop", "SIGTERM">>
               /\ pc' = waiting
          ELSE /\ audit' = Append(audit, "stop")
               /\ pc' = done

StopperFrame == UNCHANGED <<foundry, notion, db, disk, opEdits, mediaDir, outcome,
                            lastPreview, faults, input>>

\* one round of the start loop (lines 185-205) up to return, sleep or stop()
PollStart(probe) ==
  /\ pc = "polling"
  /\ probe \in ProbeResults(Procs)
  /\ run' = run
  /\ CASE Procs.child = "exited" ->
            /\ StopOwnedProxy("termThrow", "thrown")
            /\ clock' = clock
       [] Procs.child # "exited" /\ probe = "healthy" ->
            /\ returned' = Handle(TRUE, returned.probe)
            /\ pc' = "returned"
            /\ UNCHANGED <<audit, clock>>
       [] Procs.child # "exited" /\ probe # "healthy" /\ clock < MaxPolls ->
            /\ UNCHANGED <<audit, returned, pc>>
            /\ clock' = clock + 1
       [] OTHER ->
            /\ StopOwnedProxy("termThrow", "thrown")
            /\ clock' = clock
  /\ StopperFrame

\* waitForExit(child, 5000) has resolved (lines 319-326): a child that has
\* not exited gets SIGKILL; stop() returns, and ensureProxyForSync throws
\* when it was the caller
AfterTerm ==
  /\ pc \in {"termThrow", "termStop"}
  /\ IF Escalates(Procs.child)
     THEN /\ audit' = Append(audit, "SIGKILL")
          /\ run' = [Procs EXCEPT !.child = "killed"]
     ELSE /\ audit' = audit
          /\ run' = run
  /\ pc' = IF pc = "termThrow" THEN "thrown" ELSE "stopped"
  /\ returned' = IF pc = "termThrow"
                 THEN [Thrown(returned.probe) EXCEPT !.stopped = TRUE]
                 ELSE returned
  /\ clock' = clock
  /\ StopperFrame

\* the thrown error leaves ensureProxyForSync after stop() has returned at once
ThrowAfterStop ==
  /\ pc = "thrown"
  /\ returned.kind = "starting"
  /\ returned' = [Thrown(returned.probe) EXCEPT !.stopped = TRUE]
  /\ UNCHANGED <<audit, run, pc, clock>>
  /\ StopperFrame

\* the command calls the handle's stop(): in its finally block, and again
StopHandle ==
  /\ pc \in {"returned", "stopped", "termStop"}
  /\ returned.call = "ensureProxyForSync"
  /\ StopCalls < MaxStops
  /\ IF returned.stop = "owned"
     THEN StopOwnedProxy("termStop", "stopped")
     ELSE /\ audit' = Append(audit, "stop")
          /\ pc' = "stopped"
          /\ returned' = returned
  /\ UNCHANGED <<run, clock>>
  /\ StopperFrame

NextStopper ==
  \/ \E probe \in {"healthy", "unhealthy", "unreachable"} : EnsureProxyForSync(probe)
  \/ \E probe \in {"healthy", "unhealthy", "unreachable"} : PollStart(probe)
  \/ ChildReady
  \/ ChildExit
  \/ AfterTerm
  \/ ThrowAfterStop
  \/ StopHandle

SpecStopper == InitProxy /\ [][NextStopper]_vars

\* C40: when ensureProxyForSync has thrown, no child it spawned is running;
\* the child was sent SIGTERM if it had not exited, and SIGKILL only after
\* SIGTERM and only if it had still not exited; a first probe that found an
\* unhealthy proxy ends in the error with no child spawned and no signal
\* sent; no step changes a proxy started by someone else; and however often
\* stop() is called, the child gets SIGTERM at most once and SIGKILL at most
\* once.
C40_NoOrphanAfterFailure ==
  /\ []((pc = "thrown" /\ returned.kind = "thrown") =>
          Procs.child \in {"none", "exited", "killed"})
  /\ [](SignalsSent \in {<<>>, <<"SIGTERM">>, <<"SIGTERM", "SIGKILL">>})
  /\ [][(audit' # audit /\ audit'[Len(audit')] = "SIGKILL") =>
          Procs.child \in {"starting", "healthy"}]_vars
  /\ [][(Len(audit') > Len(audit) /\ "SIGTERM" \in {audit'[i] : i \in Len(audit) + 1..Len(audit')})
          => Procs.child \in {"starting", "healthy"}]_vars
  /\ []((returned.call = "ensureProxyForSync" /\ returned.probe = "unhealthy") =>
          /\ returned.kind = "thrown"
          /\ Procs.child = "none"
          /\ SignalsSent = <<>>)
  /\ [][Procs'.external = Procs.external]_vars

\* C40 case: the child did not become healthy in time and did not exit on
\* SIGTERM; it was killed before the error was thrown
C40_Witness ==
  /\ pc = "thrown"
  /\ returned.kind = "thrown"
  /\ Procs.child = "killed"
  /\ SignalsSent = <<"SIGTERM", "SIGKILL">>

====
